---- MODULE Spec2Model ----
(***************************************************************************)
(* Budget Buddy: the notification-scheduling and AI-categorization core.   *)
(*   AIService            src/src/services/aiService.ts                    *)
(*   NotificationService  src/src/constants/categories.ts (lines 72-391)   *)
(*   BillRemindersScreen  src/src/screens/LinkedAccountsScreen.tsx         *)
(* Strings are sequences of one-character strings, so that toLowerCase,    *)
(* trim and the regular-expression alternations are computed, not assumed. *)
(* Times are milliseconds since the epoch of the model (day 0, 00:00 UTC). *)
(***************************************************************************)
EXTENDS Integers, Sequences, FiniteSets, TLC

VARIABLES
    aiPc,           \* AIService.categorizeTransaction: where the call is
    aiTx,           \* its transaction argument
    aiFallback,     \* the fallback argument handed to makeAIRequest
    aiResult,       \* how the call ended
    aiCall,         \* AIService.analyzeSpendingPatterns or generateNotificationContent in flight
    clock,          \* the system time, ms
    tz,             \* the local zone's offset from UTC, ms (local = UTC + tz)
    platform,       \* Platform.OS
    isInitialized,  \* NotificationService.isInitialized
    pending,        \* the substrate's scheduled notifications
    nextId,         \* the identifier the substrate assigns next
    orphans,        \* cancel requests in flight whose Promise.all already rejected
    calls,          \* top-level calls made so far
    proc,           \* the asynchronous calls in flight, one per caller
    items,          \* the async closures of scheduleRandomNotifications' batches
    store,          \* the bill_reminders table
    uiReminders,    \* BillRemindersScreen: the reminders state
    loading,        \* BillRemindersScreen: the loading state
    user,           \* useAuth().user: the signed-in user, 0 when there is none
    transactionCache, \* useTransactions.ts: the module's cache slot
    hook            \* the state of each mounted useTransactions hook

aiVars == <<aiPc, aiTx, aiFallback, aiResult, aiCall>>

svcVars == <<clock, tz, platform, isInitialized, pending, nextId, orphans, calls, proc, items>>

uiVars == <<store, uiReminders, loading>>

txVars == <<user, transactionCache, hook>>

vars == <<aiPc, aiTx, aiFallback, aiResult, aiCall, clock, tz, platform, isInitialized,
          pending, nextId, orphans, calls, proc, items, store, uiReminders, loading,
          user, transactionCache, hook>>

\* ------------------------------------------------------------------------
\* Bounds of the model
\* ------------------------------------------------------------------------

\* longest description drawn from the small alphabet
MaxDescLen == 3

\* concurrent callers of the notification service
NumProcs == 2

\* top-level calls in one behaviour (the screen's mount is one)
MaxCalls == 3

\* bill reminders in the store
NumReminders == 2

\* budgets handed to scheduleRandomNotifications
MaxBudgets == 2

\* mounted useTransactions hooks
NumHooks == 2

\* pages a hook loads
MaxPage == 2

\* calls of fetchTransactions and loadMore in one behaviour
MaxFetches == 3

\* closures the three batches can start: one per budget, three tips, two
\* opportunities
MaxItems == MaxBudgets + 3 + 2

\* ------------------------------------------------------------------------
\* Strings
\* ------------------------------------------------------------------------

Upper == <<"A","B","C","D","E","F","G","H","I","J","K","L","M","N","O","P","Q","R","S","T","U","V","W","X","Y","Z">>

Lower == <<"a","b","c","d","e","f","g","h","i","j","k","l","m","n","o","p","q","r","s","t","u","v","w","x","y","z">>

\* String.prototype.toLowerCase, one character
LowerChar(c) ==
    IF \E i \in 1..Len(Upper) : Upper[i] = c
    THEN Lower[CHOOSE i \in 1..Len(Upper) : Upper[i] = c]
    ELSE c

\* String.prototype.toLowerCase
ToLowerCase(s) == [i \in 1..Len(s) |-> LowerChar(s[i])]

\* the characters String.prototype.trim removes
WhiteSpace == {" ", "\n", "\t"}

RECURSIVE TrimStart(_)
TrimStart(s) ==
    IF s # <<>> /\ Head(s) \in WhiteSpace THEN TrimStart(Tail(s)) ELSE s

RECURSIVE TrimEnd(_)
TrimEnd(s) ==
    IF s # <<>> /\ s[Len(s)] \in WhiteSpace
    THEN TrimEnd(SubSeq(s, 1, Len(s) - 1))
    ELSE s

\* String.prototype.trim
Trim(s) == TrimEnd(TrimStart(s))

\* an unanchored regular expression that is one literal: substring search
Includes(s, k) ==
    \E i \in 1..(Len(s) - Len(k) + 1) : SubSeq(s, i, i + Len(k) - 1) = k

\* desc.match(/k1|k2|.../) is truthy
Matches(s, keywords) == \E k \in keywords : Includes(s, k)

\* all strings over alphabet of length at most n
RECURSIVE StringsUpTo(_, _)
StringsUpTo(alphabet, n) ==
    IF n = 0 THEN {<<>>}
    ELSE LET shorter == StringsUpTo(alphabet, n - 1)
         IN  shorter \cup {Append(s, c) : s \in shorter, c \in alphabet}

\* ------------------------------------------------------------------------
\* AIService: categories and the keyword classifier
\* ------------------------------------------------------------------------
FoodName == <<"F","o","o","d">>
TransportationName == <<"T","r","a","n","s","p","o","r","t","a","t","i","o","n">>
HousingName == <<"H","o","u","s","i","n","g">>
EntertainmentName == <<"E","n","t","e","r","t","a","i","n","m","e","n","t">>
OtherName == <<"O","t","h","e","r">>

BUDGET_CATEGORIES == <<FoodName, TransportationName, HousingName, EntertainmentName, OtherName>>

CategorySet == {BUDGET_CATEGORIES[i] : i \in 1..Len(BUDGET_CATEGORIES)}

FoodKeywords ==
    {<<"f","o","o","d">>,
     <<"r","e","s","t","a","u","r","a","n","t">>,
     <<"g","r","o","c","e","r","y">>,
     <<"m","e","a","l">>,
     <<"d","r","i","n","k">>,
     <<"c","a","f","e">>}

TransportationKeywords ==
    {<<"t","r","a","n","s","p","o","r","t">>,
     <<"u","b","e","r">>,
     <<"l","y","f","t">>,
     <<"t","a","x","i">>,
     <<"g","a","s">>,
     <<"t","r","a","i","n">>,
     <<"b","u","s">>,
     <<"s","u","b","w","a","y">>}

HousingKeywords ==
    {<<"r","e","n","t">>,
     <<"m","o","r","t","g","a","g","e">>,
     <<"u","t","i","l","i","t","i","e","s">>,
     <<"w","a","t","e","r">>,
     <<"e","l","e","c","t","r","i","c","i","t","y">>,
     <<"m","a","i","n","t","e","n","a","n","c","e">>}

EntertainmentKeywords ==
    {<<"m","o","v","i","e">>,
     <<"g","a","m","e">>,
     <<"n","e","t","f","l","i","x">>,
     <<"s","p","o","t","i","f","y">>,
     <<"e","n","t","e","r","t","a","i","n","m","e","n","t">>,
     <<"c","o","n","c","e","r","t">>}

\* AIService.fallbackCategorization
fallbackCategorization(description) ==
    LET desc == ToLowerCase(description)
    IN  IF Matches(desc, FoodKeywords) THEN FoodName
        ELSE IF Matches(desc, TransportationKeywords) THEN TransportationName
        ELSE IF Matches(desc, HousingKeywords) THEN HousingName
        ELSE IF Matches(desc, EntertainmentKeywords) THEN EntertainmentName
        ELSE OtherName

\* ------------------------------------------------------------------------
\* AIService.categorizeTransaction
\* ------------------------------------------------------------------------

\* a value that is undefined or null in the source
Absent == <<"<absent>">>

\* a number, or NaN
Num(n) == [isNaN |-> FALSE, value |-> n]

NaN == [isNaN |-> TRUE, value |-> 0]

Amounts == {NaN, Num(-1), Num(0), Num(1)}

DescriptionAlphabet == {"g", "a", "S", " "}

Descriptions ==
    StringsUpTo(DescriptionAlphabet, MaxDescLen)
    \cup {<<"U","b","e","r"," ","r","i","d","e">>,
          <<"P","i","z","z","a"," ","H","u","t">>,
          <<"N","E","T","F","L","I","X"," ","s","u","b">>,
          <<"W","a","t","e","r"," ","b","i","l","l">>,
          <<"C","a","f","e"," ","b","u","s">>}

Transactions == [description : Descriptions, amount : Amounts]

\* completion.choices[0]?.message?.content of a completion that arrived
CompletionContents ==
    CategorySet
    \cup {Absent,
          <<>>,
          <<" ">>,
          <<" ","F","o","o","d"," ">>,
          <<"H","o","u","s","i","n","g","\n">>,
          <<"F","o","o","d",".">>,
          <<"f","o","o","d">>,
          <<"G","r","o","c","e","r","i","e","s">>}

\* what the awaited client.chat.completions.create can do: resolve with a
\* completion (whose choices may be missing altogether) or reject
CompletionOutcomes ==
    [kind : {"completion"}, content : CompletionContents]
    \cup [kind : {"malformed"}, content : {Absent}]
    \cup [kind : {"timeout", "http-error", "rate-limit-429", "non-error"}, content : {Absent}]

\* completion.choices[0]?.message?.content?.trim() || 'Other', then the
\* BUDGET_CATEGORIES.includes test
CategoryOfContentUnchecked(content) ==
    IF content = Absent \/ Trim(content) = <<>> THEN OtherName ELSE Trim(content)

CategoryOfContent(content) ==
    LET category == IF content = Absent \/ Trim(content) = <<>>
                    THEN OtherName
                    ELSE Trim(content)
    IN  IF category \in CategorySet THEN category ELSE OtherName

\* the operation passed to makeAIRequest by categorizeTransaction: its value,
\* or the error it rethrows
CategorizeOperation(outcome) ==
    IF outcome.kind = "completion"
    THEN [threw |-> FALSE, value |-> CategoryOfContent(outcome.content)]
    ELSE [threw |-> TRUE, value |-> Absent]

\* AIService.makeAIRequest: the operation's value, or, when it threw, a
\* console.warn and the fallback
makeAIRequest(operation, fallback) ==
    IF operation.threw
    THEN [outcome |-> "returned", value |-> fallback, warned |-> TRUE]
    ELSE [outcome |-> "returned", value |-> operation.value, warned |-> FALSE]

NoResult == [outcome |-> "none", value |-> Absent, warned |-> FALSE]

NoTx == [description |-> Absent, amount |-> NaN]

\* a value without any of the fields of a SpendingPattern
NoPattern ==
    [frequentCategories |-> <<>>,
     averageSpending |-> [category \in CategorySet |-> 0],
     overspendingTendency |-> <<>>,
     savingOpportunities |-> <<>>,
     monthlyTrend |-> "none"]

\* no value returned by analyzeSpendingPatterns
NoValue == [shape |-> "none", fields |-> {}, pattern |-> NoPattern]

\* no completion request has settled
NoOutcome == [kind |-> "none", content |-> Absent]

\* no analyzeSpendingPatterns or generateNotificationContent in flight
NoAICall ==
    [op |-> "none", pc |-> "idle", transactions |-> <<>>, budgets |-> <<>>,
     kind |-> "none", outcome |-> NoOutcome, value |-> NoValue, text |-> Absent,
     warned |-> FALSE]

AIIdle ==
    /\ aiCall = NoAICall
    /\ aiPc = "idle"
    /\ aiTx = NoTx
    /\ aiFallback = Absent
    /\ aiResult = NoResult

\* the call: the fallback argument is evaluated before makeAIRequest runs, the
\* prompt is built and the completion request is sent
CategorizeTransaction(transaction) ==
    /\ aiPc = "idle"
    /\ aiTx' = transaction
    /\ aiFallback' = fallbackCategorization(transaction.description)
    /\ aiResult' = NoResult
    /\ aiPc' = "completion"
    /\ UNCHANGED <<aiCall, svcVars, uiVars, txVars>>

\* the awaited completion request settles
CompletionSettles(outcome) ==
    /\ aiPc = "completion"
    /\ aiResult' = makeAIRequest(CategorizeOperation(outcome), aiFallback)
    /\ aiPc' = "done"
    /\ UNCHANGED <<aiTx, aiFallback, aiCall, svcVars, uiVars, txVars>>

\* the caller takes the result
CategorizeReturn ==
    /\ aiPc = "done"
    /\ aiPc' = "idle"
    /\ aiTx' = NoTx
    /\ aiFallback' = Absent
    /\ aiResult' = NoResult
    /\ UNCHANGED <<aiCall, svcVars, uiVars, txVars>>

\* ------------------------------------------------------------------------
\* AIService.generateNotificationContent
\* ------------------------------------------------------------------------

NotificationTypes == {"budget-alert", "spending-tip", "saving-opportunity"}

BudgetAlertFallback ==
    <<"Y","o","u","r"," ","b","u","d","g","e","t"," ","i","s"," ","r","u",
      "n","n","i","n","g"," ","l","o","w","."," ","C","o","n","s","i","d",
      "e","r"," ","r","e","v","i","e","w","i","n","g"," ","y","o","u","r",
      " ","s","p","e","n","d","i","n","g",".">>

SpendingTipFallback ==
    <<"T","r","a","c","k"," ","y","o","u","r"," ","d","a","i","l","y"," ",
      "e","x","p","e","n","s","e","s"," ","t","o"," ","s","t","a","y"," ",
      "w","i","t","h","i","n"," ","y","o","u","r"," ","b","u","d","g","e",
      "t",".">>

SavingOpportunityFallback ==
    <<"L","o","o","k"," ","f","o","r"," ","o","p","p","o","r","t","u","n",
      "i","t","i","e","s"," ","t","o"," ","s","a","v","e"," ","o","n"," ",
      "r","e","g","u","l","a","r"," ","e","x","p","e","n","s","e","s",".">>

\* AIService.getFallbackNotification
getFallbackNotification(type) ==
    CASE type = "budget-alert" -> BudgetAlertFallback
      [] type = "spending-tip" -> SpendingTipFallback
      [] type = "saving-opportunity" -> SavingOpportunityFallback

\* completion.choices[0]?.message?.content of a completion that arrived
NotificationContents ==
    {Absent,
     <<>>,
     <<" ">>,
     <<"\n"," ","\t">>,
     <<"S","a","v","e",".">>,
     <<" ","S","a","v","e"," ","n","o","w","\n">>}

NotificationOutcomes ==
    [kind : {"completion"}, content : NotificationContents]
    \cup [kind : {"malformed", "timeout", "http-error"}, content : {Absent}]

\* completion.choices[0]?.message?.content?.trim() || getFallbackNotification(type)
NotificationTextUntrimmed(content, type) ==
    IF content = Absent \/ content = <<>> THEN getFallbackNotification(type) ELSE content

NotificationText(content, type) ==
    IF content = Absent \/ Trim(content) = <<>>
    THEN getFallbackNotification(type)
    ELSE Trim(content)

\* the catch block of generateNotificationContent
GenerateCatchRethrows(type) == [outcome |-> "threw", value |-> Absent, warned |-> TRUE]

GenerateCatch(type) ==
    [outcome |-> "returned", value |-> getFallbackNotification(type), warned |-> TRUE]

\* AIService.generateNotificationContent, from the settled completion request
generateNotificationContent(outcome, type) ==
    IF outcome.kind = "completion"
    THEN [outcome |-> "returned", value |-> NotificationText(outcome.content, type),
          warned |-> FALSE]
    ELSE GenerateCatch(type)

\* ------------------------------------------------------------------------
\* AIService.analyzeSpendingPatterns
\* ------------------------------------------------------------------------

\* t.category || this.fallbackCategorization(t.description)
CategoryOf(t) ==
    IF t.category = Absent \/ t.category = <<>>
    THEN fallbackCategorization(t.description)
    ELSE t.category

\* a count that starts a new key for every transaction
AddCountAlwaysAppends(acc, category) ==
    Append(acc, [category |-> category, frequency |-> 1])

\* acc[category] = (acc[category] || 0) + 1, the keys in insertion order
AddCount(acc, category) ==
    IF \E i \in 1..Len(acc) : acc[i].category = category
    THEN [i \in 1..Len(acc) |->
             IF acc[i].category = category
             THEN [acc[i] EXCEPT !.frequency = @ + 1]
             ELSE acc[i]]
    ELSE Append(acc, [category |-> category, frequency |-> 1])

RECURSIVE CategoryCounts(_, _)
\* transactions.reduce(..., {}) and Object.entries of it
CategoryCounts(transactions, acc) ==
    IF transactions = <<>> THEN acc
    ELSE CategoryCounts(Tail(transactions), AddCount(acc, CategoryOf(Head(transactions))))

\* one entry put into a list sorted by falling frequency, after its equals
InsertByFrequency(sorted, e) ==
    LET before == {i \in 1..Len(sorted) : sorted[i].frequency >= e.frequency}
        k == Cardinality(before)
    IN  SubSeq(sorted, 1, k) \o <<e>> \o SubSeq(sorted, k + 1, Len(sorted))

RECURSIVE SortByFrequency(_, _)
\* .sort((a, b) => b.frequency - a.frequency), a stable sort
SortByFrequency(entries, sorted) ==
    IF entries = <<>> THEN sorted
    ELSE SortByFrequency(Tail(entries), InsertByFrequency(sorted, Head(entries)))

\* budgets.find(b => b.category === category)?.spent || 0
SpentOn(budgets, category) ==
    LET found == {i \in 1..Len(budgets) : budgets[i].category = category}
    IN  IF found = {} THEN 0
        ELSE budgets[CHOOSE i \in found : \A j \in found : i <= j].spent

\* b.spent > b.amount
OverspentOrEqual(b) == b.spent >= b.amount

Overspent(b) == b.spent > b.amount

\* b.spent > b.amount * 0.8
NearLimit(b) == b.spent * 10 > b.amount * 8

\* budgets.filter(test).map(b => b.category)
CategoriesWhere(budgets, Test(_)) ==
    LET kept == SelectSeq(budgets, Test)
    IN  [i \in 1..Len(kept) |-> kept[i].category]

\* AIService.getFallbackSpendingPattern
getFallbackSpendingPattern(transactions, budgets) ==
    [frequentCategories |-> SortByFrequency(CategoryCounts(transactions, <<>>), <<>>),
     averageSpending |-> [category \in CategorySet |-> SpentOn(budgets, category)],
     overspendingTendency |-> CategoriesWhere(budgets, Overspent),
     savingOpportunities |-> CategoriesWhere(budgets, NearLimit),
     monthlyTrend |-> "stable"]

\* texts a completion may carry
EmptyObjectText == <<"{","}">>

NullText == <<"n","u","l","l">>

ArrayText == <<"[","]">>

ProseText == <<"S","o","r","r","y",".">>

PartialPatternText ==
    <<"{","\"","m","o","n","t","h","l","y","T","r","e","n","d","\"",":",
      "\"","s","t","a","b","l","e","\"","}">>

FullPatternText ==
    <<"{","\"","f","r","e","q","u","e","n","t","C","a","t","e","g","o","r",
      "i","e","s","\"",":","[","{","\"","c","a","t","e","g","o","r","y",
      "\"",":","\"","F","o","o","d","\"",",","\"","f","r","e","q","u","e",
      "n","c","y","\"",":","2","}","]",",","\"","a","v","e","r","a","g","e",
      "S","p","e","n","d","i","n","g","\"",":","{","\"","F","o","o","d",
      "\"",":","4","0","}",",","\"","o","v","e","r","s","p","e","n","d","i",
      "n","g","T","e","n","d","e","n","c","y","\"",":","[","\"","F","o","o",
      "d","\"","]",",","\"","s","a","v","i","n","g","O","p","p","o","r","t",
      "u","n","i","t","i","e","s","\"",":","[","]",",","\"","m","o","n","t",
      "h","l","y","T","r","e","n","d","\"",":","\"","i","n","c","r","e","a",
      "s","i","n","g","\"","}">>

\* the SpendingPattern FullPatternText spells
FullPattern ==
    [frequentCategories |-> <<[category |-> FoodName, frequency |-> 2]>>,
     averageSpending |-> [category \in CategorySet |-> IF category = FoodName THEN 40 ELSE 0],
     overspendingTendency |-> <<FoodName>>,
     savingOpportunities |-> <<>>,
     monthlyTrend |-> "increasing"]

\* JSON.parse: the value a text spells, or a SyntaxError
JSONParse(text) ==
    CASE text = EmptyObjectText ->
             [threw |-> FALSE, value |-> [shape |-> "object", fields |-> {}, pattern |-> NoPattern]]
      [] text = NullText ->
             [threw |-> FALSE, value |-> [shape |-> "null", fields |-> {}, pattern |-> NoPattern]]
      [] text = ArrayText ->
             [threw |-> FALSE, value |-> [shape |-> "array", fields |-> {}, pattern |-> NoPattern]]
      [] text = PartialPatternText ->
             [threw |-> FALSE,
              value |-> [shape |-> "object", fields |-> {"monthlyTrend"},
                         pattern |-> [NoPattern EXCEPT !.monthlyTrend = "stable"]]]
      [] text = FullPatternText ->
             [threw |-> FALSE,
              value |-> [shape |-> "object",
                         fields |-> {"frequentCategories", "averageSpending",
                                     "overspendingTendency", "savingOpportunities",
                                     "monthlyTrend"},
                         pattern |-> FullPattern]]
      [] OTHER ->
             [threw |-> TRUE, value |-> [shape |-> "none", fields |-> {}, pattern |-> NoPattern]]

\* completion.choices[0]?.message?.content of a completion that arrived
AnalysisContents ==
    {Absent, <<>>, <<" ">>, EmptyObjectText, NullText, ArrayText, ProseText,
     PartialPatternText, FullPatternText}

AnalysisOutcomes ==
    [kind : {"completion"}, content : AnalysisContents]
    \cup [kind : {"malformed", "timeout", "http-error"}, content : {Absent}]

\* the object getFallbackSpendingPattern builds, as a returned value
FallbackValue(transactions, budgets) ==
    [shape |-> "object",
     fields |-> {"frequentCategories", "averageSpending", "overspendingTendency",
                 "savingOpportunities", "monthlyTrend"},
     pattern |-> getFallbackSpendingPattern(transactions, budgets)]

\* the catch block of analyzeSpendingPatterns
AnalyzeCatch(transactions, budgets) ==
    [outcome |-> "returned", value |-> FallbackValue(transactions, budgets), warned |-> TRUE]

\* completion.choices[0]?.message?.content || '{}'
ResponseContent(content) ==
    IF content = Absent \/ content = <<>> THEN EmptyObjectText ELSE content

\* AIService.analyzeSpendingPatterns, from the settled completion request
analyzeSpendingPatterns(outcome, transactions, budgets) ==
    IF outcome.kind = "completion"
    THEN LET parsed == JSONParse(ResponseContent(outcome.content))
         IN  IF parsed.threw
             THEN AnalyzeCatch(transactions, budgets)
             ELSE [outcome |-> "returned", value |-> parsed.value, warned |-> FALSE]
    ELSE AnalyzeCatch(transactions, budgets)

\* ------------------------------------------------------------------------
\* Actions: analyzeSpendingPatterns and generateNotificationContent, called
\* on their own
\* ------------------------------------------------------------------------

\* the call: the prompt is built and the completion request is sent
AnalyzeSpendingPatterns(transactions, budgets) ==
    /\ aiCall.pc = "idle"
    /\ aiCall' = [NoAICall EXCEPT !.op = "analyzeSpendingPatterns",
                                   !.pc = "completion",
                                   !.transactions = transactions,
                                   !.budgets = budgets]
    /\ UNCHANGED <<aiPc, aiTx, aiFallback, aiResult, svcVars, uiVars, txVars>>

\* the awaited completion request of analyzeSpendingPatterns settles
AnalysisCompletionSettles(outcome) ==
    /\ aiCall.op = "analyzeSpendingPatterns"
    /\ aiCall.pc = "completion"
    /\ LET r == analyzeSpendingPatterns(outcome, aiCall.transactions, aiCall.budgets)
       IN  aiCall' = [aiCall EXCEPT !.pc = IF r.outcome = "threw" THEN "threw" ELSE "done",
                                    !.outcome = outcome,
                                    !.value = r.value,
                                    !.warned = r.warned]
    /\ UNCHANGED <<aiPc, aiTx, aiFallback, aiResult, svcVars, uiVars, txVars>>

\* the call: the prompt is built and the completion request is sent
GenerateNotificationContent(budgets, notificationType) ==
    /\ aiCall.pc = "idle"
    /\ aiCall' = [NoAICall EXCEPT !.op = "generateNotificationContent",
                                   !.pc = "completion",
                                   !.budgets = budgets,
                                   !.kind = notificationType]
    /\ UNCHANGED <<aiPc, aiTx, aiFallback, aiResult, svcVars, uiVars, txVars>>

\* the awaited completion request of generateNotificationContent settles
NotificationCompletionSettles(outcome) ==
    /\ aiCall.op = "generateNotificationContent"
    /\ aiCall.pc = "completion"
    /\ LET r == generateNotificationContent(outcome, aiCall.kind)
       IN  aiCall' = [aiCall EXCEPT !.pc = IF r.outcome = "threw" THEN "threw" ELSE "done",
                                    !.outcome = outcome,
                                    !.text = r.value,
                                    !.warned = r.warned]
    /\ UNCHANGED <<aiPc, aiTx, aiFallback, aiResult, svcVars, uiVars, txVars>>

\* the caller takes the result
AICallReturn ==
    /\ aiCall.pc \in {"done", "threw"}
    /\ aiCall' = NoAICall
    /\ UNCHANGED <<aiPc, aiTx, aiFallback, aiResult, svcVars, uiVars, txVars>>

\* ------------------------------------------------------------------------
\* useTransactions: the hook and the cache slot of its module
\* ------------------------------------------------------------------------

\* const CACHE_DURATION = 5 * 60 * 1000
CACHE_DURATION == 5 * 60 * 1000

Users == {1, 2}

Hooks == 1..NumHooks

\* let transactionCache: TransactionCache | null = null
NoCache == [present |-> FALSE, data |-> <<>>, timestamp |-> 0]

\* no fetchTransactions of the hook is past its first await
NoFetch == [pc |-> "idle", refresh |-> FALSE, user |-> 0, page |-> 0]

\* a hook as useState initializes it; source tells how its last
\* fetchTransactions call ended and age how old the cache entry was, by its
\* timestamp, when the call served it
NewHook ==
    [transactions |-> <<>>, isLoading |-> FALSE, error |-> FALSE, hasMore |-> TRUE,
     page |-> 1, fetch |-> NoFetch, source |-> "none", age |-> 0]

TransactionsIdle ==
    /\ user = 0
    /\ transactionCache = NoCache
    /\ hook = [h \in Hooks |-> NewHook]

\* the transactions one fetch delivers: the page of a user, read at an instant
Fetched(u, page, at) == [user |-> u, page |-> page, at |-> at]

\* now - transactionCache.timestamp < CACHE_DURATION
CacheFreshOrEqual(now, cache) == now - cache.timestamp <= CACHE_DURATION

CacheFresh(now, cache) == now - cache.timestamp < CACHE_DURATION

\* page === 1 && transactionCache && !refresh
CacheConsulted(page, cache, refresh) == page = 1 /\ cache.present /\ ~refresh

\* fetchTransactions(refresh) of hook h, from the call to its first await or
\* to its return; the closure holds the user, page and isLoading of the
\* render it was made in, the state setters act on the hook
FetchTransactions(h, refresh) ==
    /\ user # 0
    /\ LET st == hook[h]
           cleared == IF refresh THEN NoCache ELSE transactionCache
           paged == IF refresh THEN [st EXCEPT !.page = 1] ELSE st
       IN  IF st.isLoading
           THEN /\ hook' = [hook EXCEPT ![h] = paged]
                /\ transactionCache' = cleared
           ELSE IF CacheConsulted(st.page, cleared, refresh) /\ CacheFresh(clock, cleared)
           THEN /\ hook' = [hook EXCEPT ![h] =
                                [paged EXCEPT !.transactions = cleared.data,
                                              !.isLoading = FALSE,
                                              !.error = FALSE,
                                              !.source = "cache",
                                              !.age = clock - cleared.timestamp]]
                /\ transactionCache' = cleared
           ELSE /\ hook' = [hook EXCEPT ![h] =
                                [paged EXCEPT !.isLoading = TRUE,
                                              !.error = FALSE,
                                              !.source = "fetching",
                                              !.fetch = [pc |-> "manual", refresh |-> refresh,
                                                         user |-> user, page |-> st.page]]]
                /\ transactionCache' = cleared
    /\ calls' = calls + 1
    /\ UNCHANGED <<user, clock, tz, platform, isInitialized, pending, nextId, orphans,
                   proc, items, aiVars, uiVars>>

\* the catch and finally blocks of fetchTransactions
FetchFailed(st) ==
    [st EXCEPT !.error = TRUE, !.isLoading = FALSE, !.source = "error", !.fetch = NoFetch]

\* the select on the transactions table settles
ManualSettles(h, ok) ==
    /\ hook[h].fetch.pc = "manual"
    /\ hook' = [hook EXCEPT ![h] = IF ok THEN [@ EXCEPT !.fetch.pc = "plaid"]
                                   ELSE FetchFailed(@)]
    /\ UNCHANGED <<user, transactionCache, svcVars, aiVars, uiVars>>

\* the request to the Plaid endpoint settles: rejected, answered not ok, or
\* answered ok
PlaidSettles(h, ok) ==
    /\ hook[h].fetch.pc = "plaid"
    /\ hook' = [hook EXCEPT ![h] = IF ok THEN [@ EXCEPT !.fetch.pc = "process"]
                                   ELSE FetchFailed(@)]
    /\ UNCHANGED <<user, transactionCache, svcVars, aiVars, uiVars>>

\* response.json() and the Promise.all of the categorizations settle; the
\* lists are merged and sorted, the cache is written for a first page and the
\* state is set; full tells whether the page came back full
ProcessSettles(h, ok, full) ==
    /\ hook[h].fetch.pc = "process"
    /\ LET st == hook[h]
           f == st.fetch
           processedTransactions == <<Fetched(f.user, f.page, clock)>>
       IN  IF ~ok
           THEN /\ hook' = [hook EXCEPT ![h] = FetchFailed(st)]
                /\ transactionCache' = transactionCache
           ELSE /\ transactionCache' =
                       IF f.page = 1
                       THEN [present |-> TRUE, data |-> processedTransactions,
                             timestamp |-> clock]
                       ELSE transactionCache
                /\ hook' = [hook EXCEPT ![h] =
                                [st EXCEPT !.transactions =
                                               IF f.page = 1 THEN processedTransactions
                                               ELSE @ \o processedTransactions,
                                           !.hasMore = full,
                                           !.isLoading = FALSE,
                                           !.source = "network",
                                           !.fetch = NoFetch]]
    /\ UNCHANGED <<user, svcVars, aiVars, uiVars>>

\* loadMore, the render it causes and the effect on [page], which calls
\* fetchTransactions() with the new page
LoadMore(h) ==
    /\ user # 0
    /\ ~hook[h].isLoading
    /\ hook[h].fetch.pc = "idle"
    /\ hook[h].hasMore
    /\ hook[h].page < MaxPage
    /\ hook' = [hook EXCEPT ![h] =
                   [@ EXCEPT !.page = @ + 1,
                             !.isLoading = TRUE,
                             !.error = FALSE,
                             !.source = "fetching",
                             !.fetch = [pc |-> "manual", refresh |-> FALSE,
                                        user |-> user, page |-> hook[h].page + 1]]]
    /\ calls' = calls + 1
    /\ UNCHANGED <<user, transactionCache, clock, tz, platform, isInitialized, pending,
                   nextId, orphans, proc, items, aiVars, uiVars>>

\* a user signs in
SignIn(u) ==
    /\ user = 0
    /\ user' = u
    /\ UNCHANGED <<transactionCache, hook, svcVars, aiVars, uiVars>>

\* the user signs out; the module and its cache slot stay, and so does a
\* fetch in flight
SignOut ==
    /\ user # 0
    /\ user' = 0
    /\ UNCHANGED <<transactionCache, hook, svcVars, aiVars, uiVars>>

\* time passes until instant t
TimePasses(t) ==
    /\ t > clock
    /\ clock' = t
    /\ UNCHANGED <<tz, platform, isInitialized, pending, nextId, orphans, calls, proc,
                   items, aiVars, uiVars, txVars>>

\* ------------------------------------------------------------------------
\* Time: Date arithmetic in a zone with a fixed offset from UTC
\* ------------------------------------------------------------------------

MsPerSecond == 1000

MsPerMinute == 60 * MsPerSecond

MsPerHour == 60 * MsPerMinute

\* 24 * 60 * 60 * 1000, "Add one day"
MsPerDay == 24 * 60 * 60 * 1000

MIN_HOUR == 9

MAX_HOUR == 20

\* the hour and the minute used when the configuration gives none
DefaultHour == 9

DefaultMinute == 0

\* an absent (undefined) number; hours, minutes, week days, dates and
\* identifiers given to the model are naturals
Missing == 0 - 1

\* the instant of a UTC wall-clock time
UTC(day, hour, minute, second, ms) ==
    day * MsPerDay + hour * MsPerHour + minute * MsPerMinute + second * MsPerSecond + ms

\* the index of the local calendar day an instant falls on
LocalDay(t, zone) == (t + zone) \div MsPerDay

\* Date.prototype.setHours(hour, minute, 0, 0)
SetHours(t, zone, hour, minute) ==
    LocalDay(t, zone) * MsPerDay + hour * MsPerHour + minute * MsPerMinute - zone

\* Date.prototype.getDay; day 0 of the model's epoch is a Sunday
GetDay(t, zone) == LocalDay(t, zone) % 7

\* date.setDate(date.getDate() + 1)
AddOneDay(t) == t + MsPerDay

\* NotificationService.getNextTime; now is what new Date() reads
getNextTime(hour, minute, now, zone) ==
    LET date == SetHours(now, zone, hour, minute)
    IN  IF date <= now THEN AddOneDay(date) ELSE date

\* the while loop of getNextWeekday
RECURSIVE NextWeekdayFrom(_, _, _, _)
NextWeekdayFrom(date, weekDay, now, zone) ==
    IF GetDay(date, zone) # weekDay \/ date <= now
    THEN NextWeekdayFrom(AddOneDay(date), weekDay, now, zone)
    ELSE date

\* NotificationService.getNextWeekday
getNextWeekdayAnyDay(weekDay, hour, minute, now, zone) == getNextTime(hour, minute, now, zone)

getNextWeekday(weekDay, hour, minute, now, zone) ==
    NextWeekdayFrom(SetHours(now, zone, hour, minute), weekDay, now, zone)

\* new Date("YYYY-MM-DD"): a date-only string is read as midnight UTC
ParseDateOnly(day) == day * MsPerDay

\* ------------------------------------------------------------------------
\* NotificationService.scheduleNotification: the computation before the
\* substrate call
\* ------------------------------------------------------------------------

\* v || d for a number
OrDefault(v, d) == IF v = Missing \/ v = 0 THEN d ELSE v

\* the time constraint validated first
HourOutOfRangeExclusive(config) ==
    config.hour # Missing /\ (config.hour <= MIN_HOUR \/ config.hour >= MAX_HOUR)

HourOutOfRange(config) ==
    config.hour # Missing /\ (config.hour < MIN_HOUR \/ config.hour > MAX_HOUR)

\* targetTime; now is what Date.now() read, later what new Date() reads
\* inside getNextWeekday and getNextTime
OneDayLater(targetTime, now) ==
    IF targetTime <= now THEN targetTime + MsPerDay ELSE targetTime

TargetTime(config, now, later, zone) ==
    LET targetTime ==
            IF config.date # Missing THEN config.date
            ELSE IF config.weekDay # Missing
            THEN getNextWeekday(config.weekDay, OrDefault(config.hour, DefaultHour),
                                OrDefault(config.minute, DefaultMinute), later, zone)
            ELSE getNextTime(OrDefault(config.hour, DefaultHour),
                             OrDefault(config.minute, DefaultMinute), later, zone)
    IN  OneDayLater(targetTime, now)

\* Math.floor((targetTime - now) / 1000)
TriggerSeconds(targetTime, now) == (targetTime - now) \div MsPerSecond

\* NotificationService.getPriorityLevel
getPriorityLevelWithoutMax(priority) ==
    CASE priority = "high" -> "HIGH"
      [] OTHER -> "DEFAULT"

getPriorityLevel(priority) ==
    CASE priority = "max" -> "MAX"
      [] priority = "high" -> "HIGH"
      [] OTHER -> "DEFAULT"

\* the argument of Notifications.scheduleNotificationAsync
ScheduleRequest(config, targetTime, now) ==
    [title |-> config.title,
     reminderId |-> config.reminderId,
     priority |-> getPriorityLevel(config.priority),
     seconds |-> TriggerSeconds(targetTime, now),
     repeats |-> FALSE]

NoRequest ==
    [title |-> "", reminderId |-> Missing, priority |-> "", seconds |-> 0, repeats |-> FALSE]

NoConfig ==
    [title |-> "", hour |-> Missing, minute |-> Missing, weekDay |-> Missing,
     date |-> Missing, priority |-> "absent", reminderId |-> Missing]

\* ------------------------------------------------------------------------
\* Asynchronous calls: each caller holds a stack of frames, one per async
\* function that is suspended at an await
\* ------------------------------------------------------------------------

Procs == 1..NumProcs

ReminderIds == 1..NumReminders

NoReminder == [id |-> Missing, due |-> Missing, paid |-> FALSE]

Frame(fn, pc) ==
    [fn |-> fn, pc |-> pc, reminder |-> NoReminder, data |-> <<>>, idx |-> 0,
     ids |-> {}, req |-> NoRequest, now |-> 0, target |-> 0,
     transactions |-> <<>>, budgets |-> <<>>, random |-> 0]

\* how a call ended
RetBool(b) == [outcome |-> "returned", kind |-> "bool", flag |-> b, id |-> Missing]

RetNull == [outcome |-> "returned", kind |-> "null", flag |-> FALSE, id |-> Missing]

RetVoid == [outcome |-> "returned", kind |-> "void", flag |-> FALSE, id |-> Missing]

RetId(i) == [outcome |-> "returned", kind |-> "id", flag |-> FALSE, id |-> i]

Threw == [outcome |-> "threw", kind |-> "error", flag |-> FALSE, id |-> Missing]

NoRet == [outcome |-> "none", kind |-> "none", flag |-> FALSE, id |-> Missing]

\* substrate calls and completion requests issued by a top-level call
NoCalls ==
    [handler |-> 0, channel |-> 0, permission |-> 0, schedule |-> 0, list |-> 0, cancel |-> 0,
     ai |-> 0]

\* a caller: its top-level call and argument, what new Date() read at the
\* due-date check, the status the permission request gave, the frames
\* suspended under the call, the call's end, and the substrate calls it
\* issued and saw fail
IdleProc ==
    [op |-> "none", config |-> NoConfig, reminder |-> NoReminder, checkedAt |-> Missing,
     status |-> "none", stack |-> <<>>, result |-> NoRet, n |-> NoCalls, failed |-> 0,
     budgets |-> <<>>]

\* the state the asynchronous code reads and writes, as one value
Cur ==
    [clock |-> clock, dt |-> 0, tz |-> tz, platform |-> platform, isInitialized |-> isInitialized,
     pending |-> pending, nextId |-> nextId, orphans |-> orphans, proc |-> proc,
     items |-> items,
     store |-> store, uiReminders |-> uiReminders, loading |-> loading]

\* the variables take the values of S (evaluated once)
Apply(S) ==
    \E T \in {S} :
        /\ clock' = T.clock
        /\ tz' = T.tz
        /\ platform' = T.platform
        /\ isInitialized' = T.isInitialized
        /\ pending' = T.pending
        /\ nextId' = T.nextId
        /\ orphans' = T.orphans
        /\ proc' = T.proc
        /\ items' = T.items
        /\ store' = T.store
        /\ uiReminders' = T.uiReminders
        /\ loading' = T.loading

Top(S, p) == S.proc[p].stack[Len(S.proc[p].stack)]

Push(S, p, f) == [S EXCEPT !.proc[p].stack = Append(@, f)]

Pop(S, p) == [S EXCEPT !.proc[p].stack = SubSeq(@, 1, Len(@) - 1)]

SetTop(S, p, f) == [S EXCEPT !.proc[p].stack[Len(S.proc[p].stack)] = f]

Count(S, p, kind, k) == [S EXCEPT !.proc[p].n[kind] = @ + k]

\* an awaited call of p rejected
Failed(S, p) == [S EXCEPT !.proc[p].failed = @ + 1]

Begin(S, p, op, config, reminder) ==
    [S EXCEPT !.proc[p] = [IdleProc EXCEPT !.op = op, !.config = config, !.reminder = reminder]]

\* where caller p is
Pc(p) ==
    IF proc[p].op = "none" THEN "idle"
    ELSE IF proc[p].stack = <<>> THEN "done"
    ELSE proc[p].stack[Len(proc[p].stack)].pc

\* ------------------------------------------------------------------------
\* NotificationService and BillRemindersScreen: what runs, without
\* suspension, from a call or a settled await to the next await
\* ------------------------------------------------------------------------

RECURSIVE Return(_, _, _, _)
RECURSIVE initialize(_, _)
RECURSIVE scheduleNotification(_, _, _)
RECURSIVE scheduleBillReminder(_, _, _)
RECURSIVE SbrCheck(_, _)
RECURSIVE FetchLoop(_, _)
RECURSIVE SrnAnalyze(_, _)

\* the top-level call of p is over
Finish(S, p, r) == [S EXCEPT !.proc[p].result = r]

\* if (this.isInitialized) return true
NeverInitialized(S) == FALSE

AlreadyInitialized(S) == S.isInitialized

\* NotificationService.initialize, to its first await
initialize(S, p) ==
    IF AlreadyInitialized(S)
    THEN Return(S, p, "initialize", RetBool(TRUE))
    ELSE Count(Push(S, p, Frame("initialize", "init_handler")), p, "handler", 1)

\* the catch block of initialize
InitializeCatchTrue(S, p) == Return(Pop(S, p), p, "initialize", RetBool(TRUE))

InitializeCatch(S, p) == Return(Pop(S, p), p, "initialize", RetBool(FALSE))

\* status === 'granted'
PermissionAlwaysGranted(status) == TRUE

PermissionGranted(status) == status = "granted"

\* the error thrown by the hour validation is caught by the catch block of
\* scheduleNotification itself: logged, null returned
ValidationFailureThrown == Threw

ValidationFailure == RetNull

\* NotificationService.scheduleNotification, to its await
scheduleNotification(S, p, config) ==
    IF HourOutOfRange(config)
    THEN Return(S, p, "scheduleNotification", ValidationFailure)
    ELSE LET now == S.clock
             later == S.clock + S.dt
             targetTime == TargetTime(config, now, later, S.tz)
             f == [Frame("scheduleNotification", "sn_schedule") EXCEPT
                      !.req = ScheduleRequest(config, targetTime, now),
                      !.now = now,
                      !.target = targetTime]
         IN  Count(Push([S EXCEPT !.clock = later], p, f), p, "schedule", 1)

\* dueDate < new Date() || reminder.paid
BillReminderSkippedIfPast(dueDate, now, paid) == dueDate < now

BillReminderSkipped(dueDate, now, paid) == dueDate < now \/ paid

\* NotificationService.scheduleBillReminder, to its first await
scheduleBillReminder(S, p, reminder) ==
    LET f == [Frame("scheduleBillReminder", "sbr_initialize") EXCEPT !.reminder = reminder]
    IN  IF ~S.isInitialized
        THEN initialize(Push(S, p, f), p)
        ELSE SbrCheck(Push(S, p, f), p)

\* scheduleBillReminder after initialize: the due date at 09:00, the check
\* and the call of scheduleNotification, whose promise it returns
SbrCheck(S, p) ==
    LET f == Top(S, p)
        dueDate == SetHours(ParseDateOnly(f.reminder.due), S.tz, 9, 0)
        S1 == [S EXCEPT !.proc[p].checkedAt = S.clock]
    IN  IF BillReminderSkipped(dueDate, S.clock, f.reminder.paid)
        THEN Return(Pop(S1, p), p, "scheduleBillReminder", RetNull)
        ELSE scheduleNotification(
                 SetTop(S1, p, [f EXCEPT !.pc = "sbr_scheduleNotification"]), p,
                 [NoConfig EXCEPT !.title = "Bill Due Today",
                                  !.date = dueDate,
                                  !.reminderId = f.reminder.id])

\* NotificationService.cancelBillReminder, to its first await
cancelBillReminder(S, p, reminderId) ==
    LET f == [Frame("cancelBillReminder", "cbr_list") EXCEPT
                 !.reminder = [NoReminder EXCEPT !.id = reminderId]]
    IN  Count(Push(S, p, f), p, "list", 1)

\* scheduled.filter(n => n.content.data?.reminderId === reminderId)
MatchingAll(scheduled, reminderId) == {n.identifier : n \in scheduled}

Matching(scheduled, reminderId) ==
    {n.identifier : n \in {m \in scheduled : m.reminderId = reminderId}}

\* BillRemindersScreen.fetchReminders, to its first await
fetchReminders(S, p) == Push(S, p, Frame("fetchReminders", "fr_select"))

\* the finally block of fetchReminders
FetchFinally(S, p) ==
    Return([Pop(S, p) EXCEPT !.loading = FALSE], p, "fetchReminders", RetVoid)

\* for (const reminder of data || []) await scheduleBillReminder(reminder)
FetchLoop(S, p) ==
    LET f == Top(S, p)
    IN  IF f.idx > Len(f.data)
        THEN FetchFinally(S, p)
        ELSE scheduleBillReminder(S, p, f.data[f.idx])

\* BillRemindersScreen.togglePaid, to its first await
togglePaid(S, p, reminder) ==
    Push(S, p, [Frame("togglePaid", "tp_update") EXCEPT
                   !.reminder = [reminder EXCEPT !.paid = ~reminder.paid]])

\* BillRemindersScreen.initializeNotifications
initializeNotifications(S, p) ==
    initialize(Push(S, p, Frame("initializeNotifications", "in_initialize")), p)

\* Math.random() is r / RandomScale, r in 0..RandomScale - 1
RandomScale == 1000

\* NotificationService.getRandomHour
getRandomHourBelow(r) == (r * (MAX_HOUR - MIN_HOUR + 1)) \div RandomScale + MIN_HOUR - 1

getRandomHour(r) == (r * (MAX_HOUR - MIN_HOUR + 1)) \div RandomScale + MIN_HOUR

\* NotificationService.getRandomMinute
getRandomMinute(r) == (r * 60) \div RandomScale

\* NotificationService.getRandomWeekDay
getRandomWeekDay(r) == (r * 7) \div RandomScale

\* Math.floor(Math.random() * 2) + 2
NumberOfTips(r) == (r * 2) \div RandomScale + 2

\* Math.floor(Math.random() * 2) + 1
NumberOfOpportunities(r) == (r * 2) \div RandomScale + 1

\* (budget.spent / budget.amount) * 100 >= 80 in floating point: x / 0 is
\* Infinity for x > 0, -Infinity for x < 0, and 0 / 0 is NaN, which no
\* comparison accepts
AlertDueAbove(budget) ==
    IF budget.amount = 0 THEN budget.spent > 0
    ELSE IF budget.amount > 0 THEN budget.spent * 100 > 80 * budget.amount
    ELSE budget.spent * 100 < 80 * budget.amount

AlertDue(budget) ==
    IF budget.amount = 0 THEN budget.spent > 0
    ELSE IF budget.amount > 0 THEN budget.spent * 100 >= 80 * budget.amount
    ELSE budget.spent * 100 <= 80 * budget.amount

\* the configuration an async closure of a batch hands to scheduleNotification
ItemConfig(type, r) ==
    CASE type = "budget-alert" ->
             [NoConfig EXCEPT !.title = "Budget Alert", !.hour = getRandomHour(r),
                              !.minute = getRandomMinute(r), !.priority = "high"]
      [] type = "spending-tip" ->
             [NoConfig EXCEPT !.title = "Spending Tip", !.hour = getRandomHour(r),
                              !.minute = getRandomMinute(r),
                              !.weekDay = getRandomWeekDay(r), !.priority = "default"]
      [] type = "saving-opportunity" ->
             [NoConfig EXCEPT !.title = "Saving Opportunity", !.hour = getRandomHour(r),
                              !.minute = getRandomMinute(r),
                              !.weekDay = getRandomWeekDay(r), !.priority = "default"]

\* an async closure of a batch, suspended at its generateNotificationContent
Item(p, type, budget, r) ==
    [owner |-> p, type |-> type, budget |-> budget, random |-> r, pc |-> "content",
     config |-> NoConfig, req |-> NoRequest, now |-> 0, target |-> 0, result |-> NoRet]

\* the closures of scheduleBudgetAlerts, scheduleSpendingTips and
\* scheduleSavingOpportunities, in the order they start
BatchItems(p, budgets, r) ==
    LET due == SelectSeq([i \in 1..Len(budgets) |-> i], LAMBDA i : AlertDue(budgets[i]))
    IN  [k \in 1..Len(due) |-> Item(p, "budget-alert", due[k], r)]
        \o [k \in 1..NumberOfTips(r) |-> Item(p, "spending-tip", 0, r)]
        \o [k \in 1..NumberOfOpportunities(r) |-> Item(p, "saving-opportunity", 0, r)]

\* if (!this.isInitialized) await this.initialize(): scheduleBillReminder
\* drops the value initialize gave
SbrStopsUnlessInitialized(initialized) == ~initialized.flag

SbrStops(initialized) == FALSE

\* if (!initialized) return
NeverGivesUp(initialized) == FALSE

GivesUp(initialized) == ~initialized.flag

\* NotificationService.scheduleRandomNotifications, to its first await
scheduleRandomNotifications(S, p, transactions, budgets, r) ==
    LET f == [Frame("scheduleRandomNotifications", "srn_initialize") EXCEPT
                 !.transactions = transactions, !.budgets = budgets, !.random = r]
        S1 == [S EXCEPT !.proc[p].budgets = budgets]
    IN  IF ~S1.isInitialized
        THEN initialize(Push(S1, p, f), p)
        ELSE SrnAnalyze(Push(S1, p, f), p)

\* AIService.analyzeSpendingPatterns is called: its completion request
SrnAnalyze(S, p) ==
    Count(SetTop(S, p, [Top(S, p) EXCEPT !.pc = "srn_analyze"]), p, "ai", 1)

\* Promise.all of the three batches: every closure runs to its
\* generateNotificationContent, whose completion request it sends
SrnBatches(S, p) ==
    LET f == Top(S, p)
        started == BatchItems(p, f.budgets, f.random)
        S1 == [SetTop(S, p, [f EXCEPT !.pc = "srn_batches"]) EXCEPT !.items = started]
    IN  Count(S1, p, "ai", Len(started))

\* scheduleRandomNotifications waits for its batches
Waiting(S, p) ==
    /\ S.proc[p].op = "scheduleRandomNotifications"
    /\ S.proc[p].stack # <<>>
    /\ Top(S, p).pc = "srn_batches"

\* closure i ends with r: a rejection rejects its batch's Promise.all and the
\* outer one, which the catch block of scheduleRandomNotifications takes;
\* the Promise.all resolve when every closure has
ItemEnds(S, i, r) ==
    LET p == S.items[i].owner
        S1 == [S EXCEPT !.items[i].pc = "done", !.items[i].result = r]
    IN  IF ~Waiting(S1, p) THEN S1
        ELSE IF r.outcome = "threw"
        THEN Return(Pop(S1, p), p, "scheduleRandomNotifications", RetVoid)
        ELSE IF \A j \in 1..Len(S1.items) : S1.items[j].pc = "done"
        THEN Return(Pop(S1, p), p, "scheduleRandomNotifications", RetVoid)
        ELSE S1

\* closure i calls scheduleNotification with its message
ItemSchedules(S, i) ==
    LET it == S.items[i]
        config == ItemConfig(it.type, it.random)
        now == S.clock
        targetTime == TargetTime(config, now, now, S.tz)
    IN  IF HourOutOfRange(config)
        THEN ItemEnds([S EXCEPT !.items[i].config = config], i, ValidationFailure)
        ELSE Count([S EXCEPT !.items[i].pc = "schedule",
                             !.items[i].config = config,
                             !.items[i].req = ScheduleRequest(config, targetTime, now),
                             !.items[i].now = now,
                             !.items[i].target = targetTime],
                   it.owner, "schedule", 1)

\* the callee of p's top frame ended with r: the caller resumes
Return(S, p, callee, r) ==
    IF S.proc[p].stack = <<>> THEN Finish(S, p, r)
    ELSE
    LET f == Top(S, p)
    IN  CASE f.fn = "scheduleBillReminder" /\ callee = "initialize" ->
                 IF r.outcome = "threw"
                 THEN Return(Pop(S, p), p, "scheduleBillReminder", r)
                 ELSE IF SbrStops(r)
                 THEN Return(Pop(S, p), p, "scheduleBillReminder", RetNull)
                 ELSE SbrCheck(S, p)
          [] f.fn = "scheduleBillReminder" /\ callee = "scheduleNotification" ->
                 Return(Pop(S, p), p, "scheduleBillReminder", r)
          [] f.fn = "fetchReminders" ->
                 IF r.outcome = "threw"
                 THEN FetchFinally(S, p)
                 ELSE FetchLoop(SetTop(S, p, [f EXCEPT !.idx = @ + 1]), p)
          [] f.fn = "togglePaid" /\ callee = "fetchReminders" ->
                 Return(Pop(S, p), p, "togglePaid", RetVoid)
          [] f.fn = "togglePaid" /\ callee # "fetchReminders" ->
                 IF r.outcome = "threw"
                 THEN Return(Pop(S, p), p, "togglePaid", RetVoid)
                 ELSE fetchReminders(SetTop(S, p, [f EXCEPT !.pc = "tp_fetchReminders"]), p)
          [] f.fn = "initializeNotifications" ->
                 Return(Pop(S, p), p, "initializeNotifications", RetVoid)
          [] f.fn = "scheduleRandomNotifications" /\ callee = "initialize" ->
                 IF r.outcome = "threw"
                 THEN Return(Pop(S, p), p, "scheduleRandomNotifications", r)
                 ELSE IF GivesUp(r)
                 THEN Return(Pop(S, p), p, "scheduleRandomNotifications", RetVoid)
                 ELSE SrnAnalyze(S, p)

\* ------------------------------------------------------------------------
\* The substrate, the record store and the clock
\* ------------------------------------------------------------------------

\* a scheduled notification: the request, the identifier the substrate gave
\* it and the instant it fires, counted from the call
Scheduled(identifier, req, calledAt) ==
    [identifier |-> identifier, title |-> req.title, reminderId |-> req.reminderId,
     priority |-> req.priority, seconds |-> req.seconds,
     fireAt |-> calledAt + req.seconds * MsPerSecond]

WithoutAny(scheduled, identifier) == {}

Without(scheduled, identifier) == {n \in scheduled : n.identifier # identifier}

\* the rows .gte('due_date', today).order('due_date') returns; today is the
\* UTC date of new Date().toISOString()
RECURSIVE InDueOrder(_, _)
InDueOrder(st, ids) ==
    IF ids = {} THEN <<>>
    ELSE LET first == CHOOSE i \in ids :
                          \A j \in ids : st[i].due < st[j].due
                                         \/ (st[i].due = st[j].due /\ i <= j)
         IN  <<[id |-> first, due |-> st[first].due, paid |-> st[first].paid]>>
             \o InDueOrder(st, ids \ {first})

SelectReminders(st, now) ==
    InDueOrder(st, {i \in DOMAIN st : st[i].due >= now \div MsPerDay})

\* ------------------------------------------------------------------------
\* Inputs
\* ------------------------------------------------------------------------

\* the day the behaviours start on
BaseDay == 10

TimeZones == {0 - 5 * MsPerHour, 0, 9 * MsPerHour}

Platforms == {"android", "ios"}

\* the instant of a local wall-clock time
Local(zone, day, hour, minute, second, ms) == UTC(day, hour, minute, second, ms) - zone

\* the instants the clock of the service takes
Instants(zone) ==
    {Local(zone, BaseDay, 8, 0, 0, 0),
     Local(zone, BaseDay, 9, 0, 0, 1),
     Local(zone, BaseDay + 1, 23, 30, 0, 0)}

\* due_date of a reminder, as the index of its calendar day
DueDays == {BaseDay - 1, BaseDay, BaseDay + 1}

Reminders == [id : ReminderIds, due : DueDays, paid : BOOLEAN]

PermissionStatuses == {"granted", "denied", "undetermined"}

\* ------------------------------------------------------------------------
\* Actions: calls
\* ------------------------------------------------------------------------

\* a caller is free; callers are taken in order, none is told from another
CanCall(p) ==
    /\ proc[p].op = "none"
    /\ \A q \in Procs : q < p => proc[q].op # "none"

CallInitialize(p) ==
    /\ CanCall(p)
    /\ Apply(initialize(Begin(Cur, p, "initialize", NoConfig, NoReminder), p))
    /\ calls' = calls + 1
    /\ UNCHANGED <<aiVars, txVars>>

CallScheduleBillReminder(p, reminder) ==
    /\ CanCall(p)
    /\ Apply(scheduleBillReminder(
                 Begin(Cur, p, "scheduleBillReminder", NoConfig, reminder), p, reminder))
    /\ calls' = calls + 1
    /\ UNCHANGED <<aiVars, txVars>>

CallCancelBillReminder(p, reminderId) ==
    /\ CanCall(p)
    /\ Apply(cancelBillReminder(
                 Begin(Cur, p, "cancelBillReminder", NoConfig,
                       [NoReminder EXCEPT !.id = reminderId]), p, reminderId))
    /\ calls' = calls + 1
    /\ UNCHANGED <<aiVars, txVars>>

\* the scheduling primitive called on its own; dt is the time that passes
\* between Date.now() and the next reading of the clock
CallScheduleNotification(p, config, dt) ==
    /\ proc[p].op = "none"
    /\ calls = 0
    /\ Apply(scheduleNotification(
                 Begin([Cur EXCEPT !.dt = dt], p, "scheduleNotification", config, NoReminder),
                 p, config))
    /\ calls' = calls + 1
    /\ UNCHANGED <<aiVars, txVars>>

\* the caller has its answer
TakeResult(p) ==
    /\ Pc(p) = "done"
    /\ proc' = [proc EXCEPT ![p] = IdleProc]
    /\ UNCHANGED <<clock, tz, platform, isInitialized, pending, nextId, orphans, calls,
                   items, aiVars, uiVars, txVars>>

\* ------------------------------------------------------------------------
\* Actions: an awaited call settles
\* ------------------------------------------------------------------------

At(S, p, pc) == SetTop(S, p, [Top(S, p) EXCEPT !.pc = pc])

\* Notifications.setNotificationHandler
HandlerSettles(p, ok) ==
    /\ Pc(p) = "init_handler"
    /\ Apply(IF ~ok THEN InitializeCatch(Failed(Cur, p), p)
             ELSE IF platform = "android"
             THEN Count(At(Cur, p, "init_channel"), p, "channel", 1)
             ELSE Count(At(Cur, p, "init_permission"), p, "permission", 1))
    /\ UNCHANGED <<calls, aiVars, txVars>>

\* setupAndroidChannel
ChannelSettles(p, ok) ==
    /\ Pc(p) = "init_channel"
    /\ Apply(IF ~ok THEN InitializeCatch(Failed(Cur, p), p)
             ELSE Count(At(Cur, p, "init_permission"), p, "permission", 1))
    /\ UNCHANGED <<calls, aiVars, txVars>>

\* Notifications.requestPermissionsAsync resolves
PermissionSettles(p, status) ==
    /\ Pc(p) = "init_permission"
    /\ LET S1 == [Pop(Cur, p) EXCEPT !.isInitialized = PermissionGranted(status),
                                     !.proc[p].status = status]
       IN  Apply(Return(S1, p, "initialize", RetBool(S1.isInitialized)))
    /\ UNCHANGED <<calls, aiVars, txVars>>

\* Notifications.requestPermissionsAsync rejects
PermissionFails(p) ==
    /\ Pc(p) = "init_permission"
    /\ Apply(InitializeCatch(Failed(Cur, p), p))
    /\ UNCHANGED <<calls, aiVars, txVars>>

\* Notifications.scheduleNotificationAsync
ScheduleSettles(p, ok) ==
    /\ Pc(p) = "sn_schedule"
    /\ LET f == Top(Cur, p)
           S1 == [Pop(Cur, p) EXCEPT
                     !.pending = @ \cup {Scheduled(nextId, f.req, f.now)},
                     !.nextId = @ + 1]
       IN  Apply(IF ok
                 THEN Return(S1, p, "scheduleNotification", RetId(nextId))
                 ELSE Return(Pop(Failed(Cur, p), p), p, "scheduleNotification", RetNull))
    /\ UNCHANGED <<calls, aiVars, txVars>>

\* Notifications.getAllScheduledNotificationsAsync; the cancel calls of the
\* matching notifications are all issued at once
ListSettles(p, ok) ==
    /\ Pc(p) = "cbr_list"
    /\ LET f == Top(Cur, p)
           reminders == Matching(pending, f.reminder.id)
       IN  Apply(IF ~ok THEN Return(Pop(Failed(Cur, p), p), p, "cancelBillReminder", Threw)
                 ELSE IF reminders = {}
                 THEN Return(Pop(Cur, p), p, "cancelBillReminder", RetVoid)
                 ELSE Count(SetTop(Cur, p, [f EXCEPT !.pc = "cbr_cancel", !.ids = reminders]),
                            p, "cancel", Cardinality(reminders)))
    /\ UNCHANGED <<calls, aiVars, txVars>>

\* one Notifications.cancelScheduledNotificationAsync; Promise.all rejects
\* with the first failure and leaves the other cancels in flight
CancelSettles(p, identifier, ok) ==
    /\ Pc(p) = "cbr_cancel"
    /\ LET f == Top(Cur, p)
           S1 == [Cur EXCEPT !.pending = Without(@, identifier)]
           rest == f.ids \ {identifier}
       IN  /\ identifier \in f.ids
           /\ Apply(IF ~ok
                    THEN Return([Pop(Failed(Cur, p), p) EXCEPT !.orphans = @ \cup rest],
                                p, "cancelBillReminder", Threw)
                    ELSE IF rest = {}
                    THEN Return(Pop(S1, p), p, "cancelBillReminder", RetVoid)
                    ELSE SetTop(S1, p, [f EXCEPT !.ids = rest]))
    /\ UNCHANGED <<calls, aiVars, txVars>>

\* a cancel call nobody awaits any more
OrphanSettles(identifier, ok) ==
    /\ identifier \in orphans
    /\ orphans' = orphans \ {identifier}
    /\ pending' = IF ok THEN Without(pending, identifier) ELSE pending
    /\ UNCHANGED <<clock, tz, platform, isInitialized, nextId, calls, proc, items, aiVars, uiVars, txVars>>

\* a notification fires and leaves the substrate's schedule
Deliver(n) ==
    /\ n \in pending
    /\ n.fireAt <= clock
    /\ pending' = pending \ {n}
    /\ UNCHANGED <<clock, tz, platform, isInitialized, nextId, orphans, calls, proc,
                   items, aiVars, uiVars, txVars>>

\* time passes
Tick(t) ==
    /\ t \in Instants(tz)
    /\ t > clock
    /\ clock' = t
    /\ UNCHANGED <<tz, platform, isInitialized, pending, nextId, orphans, calls, proc,
                   items, aiVars, uiVars, txVars>>

\* ------------------------------------------------------------------------
\* Actions: scheduleRandomNotifications
\* ------------------------------------------------------------------------

\* every closure of the batches started before has ended
ItemsDone == \A i \in 1..Len(items) : items[i].pc = "done"

\* r is what Math.random() returns throughout the call
CallScheduleRandomNotifications(p, transactions, budgets, r) ==
    /\ CanCall(p)
    /\ ItemsDone
    /\ Apply(scheduleRandomNotifications(
                 Begin(Cur, p, "scheduleRandomNotifications", NoConfig, NoReminder),
                 p, transactions, budgets, r))
    /\ calls' = calls + 1
    /\ UNCHANGED <<aiVars, txVars>>

\* the completion request of analyzeSpendingPatterns settles; the pattern it
\* returns goes into the prompts of the closures and nowhere else
AnalysisSettles(p, outcome) ==
    /\ Pc(p) = "srn_analyze"
    /\ LET f == Top(Cur, p)
           spendingPattern == analyzeSpendingPatterns(outcome, f.transactions, f.budgets)
       IN  Apply(IF spendingPattern.outcome = "threw"
                 THEN Return(Pop(Cur, p), p, "scheduleRandomNotifications", RetVoid)
                 ELSE SrnBatches(Cur, p))
    /\ UNCHANGED <<calls, aiVars, txVars>>

\* the completion request of closure i's generateNotificationContent settles
ItemContentSettles(i, outcome) ==
    /\ i \in 1..Len(items)
    /\ items[i].pc = "content"
    /\ LET message == generateNotificationContent(outcome, items[i].type)
       IN  Apply(IF message.outcome = "threw"
                 THEN ItemEnds(Cur, i, Threw)
                 ELSE ItemSchedules(Cur, i))
    /\ UNCHANGED <<calls, aiVars, txVars>>

\* Notifications.scheduleNotificationAsync of closure i settles
ItemScheduleSettles(i, ok) ==
    /\ i \in 1..Len(items)
    /\ items[i].pc = "schedule"
    /\ LET S1 == [Cur EXCEPT
                     !.pending = @ \cup {Scheduled(nextId, items[i].req, items[i].now)},
                     !.nextId = @ + 1]
       IN  Apply(IF ok
                 THEN ItemEnds(S1, i, RetId(nextId))
                 ELSE ItemEnds(Cur, i, RetNull))
    /\ UNCHANGED <<calls, aiVars, txVars>>

\* ------------------------------------------------------------------------
\* Actions: the bill reminders screen
\* ------------------------------------------------------------------------

\* the effect that runs on mount: fetchReminders(); initializeNotifications()
ScreenMount(p, q) ==
    /\ calls = 0
    /\ p < q
    /\ proc[p].op = "none" /\ proc[q].op = "none"
    /\ loading
    /\ LET S1 == fetchReminders(Begin(Cur, p, "fetchReminders", NoConfig, NoReminder), p)
           S2 == Begin(S1, q, "initializeNotifications", NoConfig, NoReminder)
       IN  Apply(initializeNotifications(S2, q))
    /\ calls' = calls + 1
    /\ UNCHANGED <<aiVars, txVars>>

\* a reminder card is pressed
PressReminder(p, i) ==
    /\ CanCall(p)
    /\ calls > 0
    /\ calls < MaxCalls
    /\ ~loading
    /\ i \in 1..Len(uiReminders)
    /\ Apply(togglePaid(Begin(Cur, p, "togglePaid", NoConfig, uiReminders[i]), p, uiReminders[i]))
    /\ calls' = calls + 1
    /\ UNCHANGED <<aiVars, txVars>>

\* the select on bill_reminders
SelectSettles(p, ok) ==
    /\ Pc(p) = "fr_select"
    /\ LET data == SelectReminders(store, clock)
           f == [Top(Cur, p) EXCEPT !.pc = "fr_loop", !.data = data, !.idx = 1]
       IN  Apply(IF ~ok THEN FetchFinally(Failed(Cur, p), p)
                 ELSE FetchLoop(SetTop([Cur EXCEPT !.uiReminders = data], p, f), p))
    /\ UNCHANGED <<calls, aiVars, txVars>>

\* the update of bill_reminders.paid
UpdateSettles(p, ok) ==
    /\ Pc(p) = "tp_update"
    /\ LET f == Top(Cur, p)
           S1 == At([Cur EXCEPT !.store[f.reminder.id].paid = f.reminder.paid], p, "tp_notify")
       IN  Apply(IF ~ok THEN Return(Pop(Failed(Cur, p), p), p, "togglePaid", RetVoid)
                 ELSE IF f.reminder.paid
                 THEN cancelBillReminder(S1, p, f.reminder.id)
                 ELSE scheduleBillReminder(S1, p, f.reminder))
    /\ UNCHANGED <<calls, aiVars, txVars>>


\* ------------------------------------------------------------------------
\* Specifications
\* ------------------------------------------------------------------------

ServiceIdle ==
    /\ isInitialized = FALSE
    /\ pending = {}
    /\ nextId = 1
    /\ orphans = {}
    /\ calls = 0
    /\ proc = [p \in Procs |-> IdleProc]
    /\ items = <<>>

ScreenIdle ==
    /\ store = [i \in ReminderIds |-> [due |-> BaseDay, paid |-> FALSE]]
    /\ uiReminders = <<>>
    /\ loading = TRUE

\* AIService.categorizeTransaction, called again and again
AIInit ==
    /\ AIIdle
    /\ TransactionsIdle
    /\ tz = 0
    /\ clock = Local(0, BaseDay, 8, 0, 0, 0)
    /\ platform = "ios"
    /\ ServiceIdle
    /\ ScreenIdle

AINext ==
    \/ \E transaction \in Transactions : CategorizeTransaction(transaction)
    \/ \E outcome \in CompletionOutcomes : CompletionSettles(outcome)
    \/ CategorizeReturn

SpecAI == AIInit /\ [][AINext]_vars

\* NotificationService.scheduleNotification, called once on its own
SchedInstants(zone) ==
    {Local(zone, BaseDay, 8, 59, 59, 999),
     Local(zone, BaseDay, 9, 0, 0, 0),
     Local(zone, BaseDay, 9, 0, 1, 0),
     Local(zone, BaseDay, 14, 30, 0, 500),
     Local(zone, BaseDay, 20, 59, 59, 999),
     Local(zone, BaseDay, 23, 59, 59, 999)}

Hours == {8, 9, 14, 20, 21}

Minutes == {0, 30, 59}

WeekDays == 0..6

Priorities == {"absent", "default", "high", "max"}

\* config.date, relative to the time of the call
DateOffsets ==
    {0 - 2 * MsPerDay, 0 - MsPerDay, 0 - 1, 0, 1, 999, MsPerSecond, MsPerHour, 3 * MsPerDay}

ElapsedMs == {0, 1}

TimeConfigs ==
    {[NoConfig EXCEPT !.title = "Test", !.hour = h, !.minute = m, !.weekDay = w, !.priority = y] :
        h \in Hours \cup {Missing}, m \in Minutes \cup {Missing},
        w \in WeekDays \cup {Missing}, y \in Priorities}

DateConfigs(now) ==
    {[NoConfig EXCEPT !.title = "Test", !.date = now + off, !.priority = y] :
        off \in DateOffsets, y \in Priorities}

SchedInit ==
    /\ AIIdle
    /\ TransactionsIdle
    /\ tz \in TimeZones
    /\ clock \in SchedInstants(tz)
    /\ platform = "ios"
    /\ ServiceIdle
    /\ ScreenIdle

SchedNext ==
    \/ /\ calls = 0
       /\ \E config \in TimeConfigs, dt \in ElapsedMs : CallScheduleNotification(1, config, dt)
    \/ /\ calls = 0
       /\ \E config \in DateConfigs(clock), dt \in ElapsedMs : CallScheduleNotification(1, config, dt)
    \/ \E ok \in BOOLEAN : ScheduleSettles(1, ok)

SpecSched == SchedInit /\ [][SchedNext]_vars

\* the public operations of NotificationService, called by concurrent
\* callers, on a device whose zone is UTC
ServiceInit ==
    /\ AIIdle
    /\ TransactionsIdle
    /\ tz = 0
    /\ clock = Local(0, BaseDay, 8, 0, 0, 0)
    /\ platform \in Platforms
    /\ ServiceIdle
    /\ ScreenIdle

InitializeSettles ==
    \/ \E p \in Procs, ok \in BOOLEAN : HandlerSettles(p, ok)
    \/ \E p \in Procs, ok \in BOOLEAN : ChannelSettles(p, ok)
    \/ \E p \in Procs, status \in PermissionStatuses : PermissionSettles(p, status)
    \/ \E p \in Procs : PermissionFails(p)

CancelSettlesAny ==
    \/ \E p \in Procs, ok \in BOOLEAN : ListSettles(p, ok)
    \/ \E p \in Procs, identifier \in 1..nextId, ok \in BOOLEAN : CancelSettles(p, identifier, ok)
    \/ \E identifier \in orphans, ok \in BOOLEAN : OrphanSettles(identifier, ok)

ServiceCalls ==
    \/ \E p \in Procs : CallInitialize(p)
    \/ \E p \in Procs, reminder \in Reminders : CallScheduleBillReminder(p, reminder)
    \/ \E p \in Procs, reminderId \in ReminderIds : CallCancelBillReminder(p, reminderId)

ServiceNext ==
    \/ (calls < MaxCalls /\ ServiceCalls)
    \/ InitializeSettles
    \/ \E p \in Procs, ok \in BOOLEAN : ScheduleSettles(p, ok)
    \/ CancelSettlesAny
    \/ \E p \in Procs : TakeResult(p)

SpecService == ServiceInit /\ [][ServiceNext]_vars

\* the same operations, each called after the one before has returned, in
\* every zone, while time passes and notifications fire
SeqInit ==
    /\ AIIdle
    /\ TransactionsIdle
    /\ tz \in TimeZones
    /\ clock \in Instants(tz)
    /\ platform \in Platforms
    /\ ServiceIdle
    /\ ScreenIdle

AllIdle == \A p \in Procs : proc[p].op = "none"

SeqNext ==
    \/ (calls < MaxCalls /\ AllIdle /\ ServiceCalls)
    \/ InitializeSettles
    \/ \E p \in Procs, ok \in BOOLEAN : ScheduleSettles(p, ok)
    \/ CancelSettlesAny
    \/ \E p \in Procs : TakeResult(p)
    \/ \E n \in pending : Deliver(n)
    \/ \E t \in Instants(tz) : Tick(t)

SpecSeq == SeqInit /\ [][SeqNext]_vars

\* the bill reminders screen on an iOS device whose zone is UTC, with a
\* substrate and a store that answer every call: mounted once, then its
\* cards pressed
ScreenInit ==
    /\ AIIdle
    /\ TransactionsIdle
    /\ tz = 0
    /\ clock = Local(0, BaseDay, 8, 0, 0, 0)
    /\ platform = "ios"
    /\ ServiceIdle
    /\ store \in [ReminderIds -> [due : {BaseDay + 1}, paid : BOOLEAN]]
    /\ uiReminders = <<>>
    /\ loading = TRUE

ScreenNext ==
    \/ \E p \in Procs, q \in Procs : ScreenMount(p, q)
    \/ \E p \in Procs, i \in 1..NumReminders : PressReminder(p, i)
    \/ \E p \in Procs : SelectSettles(p, TRUE)
    \/ \E p \in Procs : UpdateSettles(p, TRUE)
    \/ \E p \in Procs : HandlerSettles(p, TRUE)
    \/ \E p \in Procs, status \in PermissionStatuses : PermissionSettles(p, status)
    \/ \E p \in Procs : ScheduleSettles(p, TRUE)
    \/ \E p \in Procs : ListSettles(p, TRUE)
    \/ \E p \in Procs, identifier \in 1..nextId : CancelSettles(p, identifier, TRUE)
    \/ \E p \in Procs : TakeResult(p)

SpecScreen == ScreenInit /\ [][ScreenNext]_vars

\* scheduleRandomNotifications, called once on an iOS device whose zone is
\* UTC
Randoms == {0, 999}

\* a budget of the i-th category
Budget(i, amount, spent) == [category |-> BUDGET_CATEGORIES[i], amount |-> amount, spent |-> spent]

\* up to MaxBudgets budgets: below, at and above 80 percent, and with amount 0
BudgetLists ==
    {list \in {<<>>,
               <<Budget(1, 100, 79)>>,
               <<Budget(1, 100, 80)>>,
               <<Budget(1, 0, 0)>>,
               <<Budget(1, 0, 79)>>,
               <<Budget(1, 100, 79), Budget(3, 100, 80)>>,
               <<Budget(1, 100, 120), Budget(3, 0, 0)>>,
               <<Budget(1, 100, 80), Budget(3, 0, 50)>>} : Len(list) <= MaxBudgets}

\* a completion request answered with text, and one that timed out
SettledOutcomes ==
    {[kind |-> "completion", content |-> ProseText],
     [kind |-> "timeout", content |-> Absent]}

RandomInit ==
    /\ AIIdle
    /\ TransactionsIdle
    /\ tz = 0
    /\ clock \in {Local(0, BaseDay, 8, 0, 0, 0), Local(0, BaseDay, 20, 59, 0, 1)}
    /\ platform = "ios"
    /\ ServiceIdle
    /\ ScreenIdle

RandomNext ==
    \/ /\ calls = 0
       /\ \E budgets \in BudgetLists, r \in Randoms :
              CallScheduleRandomNotifications(1, <<>>, budgets, r)
    \/ \E ok \in BOOLEAN : HandlerSettles(1, ok)
    \/ \E status \in PermissionStatuses : PermissionSettles(1, status)
    \/ PermissionFails(1)
    \/ \E outcome \in SettledOutcomes : AnalysisSettles(1, outcome)
    \/ \E i \in 1..MaxItems, outcome \in SettledOutcomes : ItemContentSettles(i, outcome)
    \/ \E i \in 1..MaxItems, ok \in BOOLEAN : ItemScheduleSettles(i, ok)

SpecRandom == RandomInit /\ [][RandomNext]_vars

\* analyzeSpendingPatterns and generateNotificationContent, called again and
\* again on their own
UberRide == <<"U","b","e","r"," ","r","i","d","e">>

PizzaHut == <<"P","i","z","z","a"," ","H","u","t">>

CafeLunch == <<"C","a","f","e"," ","l","u","n","c","h">>

\* a transaction; category is Absent when none is assigned
Tx(description, amount, category) ==
    [description |-> description, amount |-> amount, category |-> category]

TransactionLists ==
    {<<>>,
     <<Tx(UberRide, 20, Absent), Tx(PizzaHut, 15, Absent)>>,
     <<Tx(PizzaHut, 15, FoodName), Tx(UberRide, 20, Absent)>>,
     <<Tx(PizzaHut, 15, <<>>), Tx(UberRide, 20, Absent), Tx(UberRide, 30, Absent)>>,
     <<Tx(CafeLunch, 12, Absent), Tx(UberRide, 20, EntertainmentName),
       Tx(CafeLunch, 9, Absent)>>}

\* budgets below, at and above their amount and 80 percent of it
InsightBudgetLists ==
    {<<>>,
     <<Budget(1, 100, 90), Budget(3, 500, 100)>>,
     <<Budget(1, 100, 100), Budget(2, 50, 40)>>,
     <<Budget(3, 500, 450), Budget(1, 100, 120)>>,
     <<Budget(1, 100, 81), Budget(5, 0, 0)>>,
     <<Budget(4, 10, 8), Budget(4, 0, 1)>>}

InsightNext ==
    \/ \E transactions \in TransactionLists, budgets \in InsightBudgetLists :
           AnalyzeSpendingPatterns(transactions, budgets)
    \/ \E outcome \in AnalysisOutcomes : AnalysisCompletionSettles(outcome)
    \/ \E budgets \in InsightBudgetLists, notificationType \in NotificationTypes :
           GenerateNotificationContent(budgets, notificationType)
    \/ \E outcome \in NotificationOutcomes : NotificationCompletionSettles(outcome)
    \/ AICallReturn

SpecInsight == AIInit /\ [][InsightNext]_vars

\* cancelBillReminder called once after a restart of the application: the
\* operating system still holds notifications scheduled earlier
Leftover(identifier, title, reminderId, priority) ==
    Scheduled(identifier,
              [NoRequest EXCEPT !.title = title, !.reminderId = reminderId,
                                !.priority = priority, !.seconds = identifier * 3600],
              Local(0, BaseDay, 8, 0, 0, 0))

Leftovers ==
    {Leftover(1, "Bill Due Today", 1, "HIGH"),
     Leftover(2, "Bill Due Today", 1, "HIGH"),
     Leftover(3, "Bill Due Today", 2, "HIGH"),
     Leftover(4, "Bill Due Today", NumReminders + 1, "HIGH"),
     Leftover(5, "Budget Alert", Missing, "HIGH"),
     Leftover(6, "Spending Tip", Missing, "DEFAULT"),
     Leftover(7, "Saving Opportunity", Missing, "DEFAULT")}

CancelInit ==
    /\ AIIdle
    /\ TransactionsIdle
    /\ tz = 0
    /\ clock = Local(0, BaseDay, 8, 0, 0, 0)
    /\ platform = "ios"
    /\ isInitialized = FALSE
    /\ pending \in SUBSET Leftovers
    /\ nextId = Cardinality(Leftovers) + 1
    /\ orphans = {}
    /\ calls = 0
    /\ proc = [p \in Procs |-> IdleProc]
    /\ items = <<>>
    /\ ScreenIdle

CancelNext ==
    \/ /\ calls = 0
       /\ \E reminderId \in ReminderIds : CallCancelBillReminder(1, reminderId)
    \/ \E ok \in BOOLEAN : ListSettles(1, ok)
    \/ \E identifier \in 1..nextId, ok \in BOOLEAN : CancelSettles(1, identifier, ok)
    \/ \E identifier \in orphans, ok \in BOOLEAN : OrphanSettles(identifier, ok)
    \/ TakeResult(1)

SpecCancel == CancelInit /\ [][CancelNext]_vars

\* the useTransactions hooks of two screens, two users signing in and out,
\* and time passing up to and beyond the freshness window of the cache
TransactionsStart == Local(0, BaseDay, 8, 0, 0, 0)

TransactionsInstants ==
    {TransactionsStart + CACHE_DURATION - 1,
     TransactionsStart + CACHE_DURATION,
     TransactionsStart + 2 * CACHE_DURATION}

TransactionsInit ==
    /\ AIIdle
    /\ TransactionsIdle
    /\ tz = 0
    /\ clock = TransactionsStart
    /\ platform = "ios"
    /\ ServiceIdle
    /\ ScreenIdle

TransactionsNext ==
    \/ /\ calls < MaxFetches
       /\ \E h \in Hooks, refresh \in BOOLEAN : FetchTransactions(h, refresh)
    \/ /\ calls < MaxFetches
       /\ \E h \in Hooks : LoadMore(h)
    \/ \E h \in Hooks, ok \in BOOLEAN : ManualSettles(h, ok)
    \/ \E h \in Hooks, ok \in BOOLEAN : PlaidSettles(h, ok)
    \/ \E h \in Hooks, ok \in BOOLEAN, full \in BOOLEAN : ProcessSettles(h, ok, full)
    \/ \E u \in Users : SignIn(u)
    \/ SignOut
    \/ \E t \in TransactionsInstants : TimePasses(t)

SpecTransactions == TransactionsInit /\ [][TransactionsNext]_vars

\* ------------------------------------------------------------------------
\* Properties
\* ------------------------------------------------------------------------

\* C1: whatever the description, the amount and the way the completion
\* request ends, categorizeTransaction does not reject and its value is one
\* of the five category names.
C1_CategorizeTotal ==
    aiPc = "done" =>
        /\ aiResult.outcome = "returned"
        /\ aiResult.value \in CategorySet

\* the request was rejected for a transaction with a NaN amount and the
\* keyword fallback answered
C1_FallbackAnswered ==
    /\ aiPc = "done"
    /\ aiTx.amount = NaN
    /\ aiTx.description = <<"U","b","e","r"," ","r","i","d","e">>
    /\ aiResult.warned
    /\ aiResult.value = TransportationName

\* C2: for every variant of the configuration and every current time, the
\* trigger time scheduleNotification resolves is strictly later than the
\* Date.now() it resolved it at; with hour 9, minute 0 at 09:00:01 it is
\* 09:00 of the next day.
C2_TriggerStrictlyLater ==
    \A p \in Procs :
        Pc(p) = "sn_schedule" =>
            /\ Top(Cur, p).target > Top(Cur, p).now
            /\ ( /\ proc[p].config.hour = 9
                 /\ proc[p].config.minute = 0
                 /\ proc[p].config.weekDay = Missing
                 /\ proc[p].config.date = Missing
                 /\ Top(Cur, p).now = Local(tz, BaseDay, 9, 0, 1, 0)
                 => Top(Cur, p).target = Local(tz, BaseDay + 1, 9, 0, 0, 0) )

\* an hour was given and lies outside [MIN_HOUR, MAX_HOUR]
ExplicitHourOutside(config) ==
    config.hour # Missing /\ config.hour \notin MIN_HOUR..MAX_HOUR

C4_ScheduleCallsByHour ==
    \A p \in Procs :
        proc[p].op = "scheduleNotification" =>
            IF ExplicitHourOutside(proc[p].config)
            THEN proc[p].n.schedule = 0
            ELSE proc[p].n.schedule = 1

\* a call with hour 20 issued its one schedule call and has the identifier
C4_Hour20Scheduled ==
    \E p \in Procs :
        /\ proc[p].op = "scheduleNotification"
        /\ Pc(p) = "done"
        /\ proc[p].config.hour = 20
        /\ proc[p].n.schedule = 1
        /\ proc[p].result.kind = "id"
        /\ \E n \in pending : n.identifier = proc[p].result.id

\* C5: scheduleBillReminder returns null and issues no substrate schedule
\* call when the reminder is paid, whatever its due date, and when 09:00 of
\* its due date is before the time it reads, even if it is unpaid.
C5_PaidOrPastNotScheduled ==
    \A p \in Procs :
        /\ proc[p].op = "scheduleBillReminder"
        /\ \/ proc[p].reminder.paid
           \/ /\ proc[p].checkedAt # Missing
              /\ Local(tz, proc[p].reminder.due, 9, 0, 0, 0) < proc[p].checkedAt
        => /\ proc[p].n.schedule = 0
           /\ Pc(p) = "done" => proc[p].result = RetNull

\* an unpaid reminder due yesterday was refused
C5_DueYesterdaySkipped ==
    \E p \in Procs :
        /\ proc[p].op = "scheduleBillReminder"
        /\ Pc(p) = "done"
        /\ ~proc[p].reminder.paid
        /\ proc[p].checkedAt # Missing
        /\ LocalDay(proc[p].checkedAt, tz) = proc[p].reminder.due + 1
        /\ proc[p].n.schedule = 0
        /\ proc[p].result = RetNull

\* the list of scheduled notifications arrives at a cancelBillReminder whose
\* reminder no pending notification carries
ListArrivesWithoutMatch(p) ==
    /\ proc[p].op = "cancelBillReminder"
    /\ Pc(p) = "cbr_list"
    /\ Pc(p)' # "cbr_list"
    /\ proc'[p].failed = proc[p].failed
    /\ \A n \in pending : n.reminderId # proc[p].reminder.id

\* C6: cancelBillReminder(id) is idempotent: with no pending notification
\* carrying id it completes without error and issues no cancel call, leaving
\* the pending set as it is; and a call that completed leaves no pending
\* notification carrying id, so that a second call in a row is such a call.
C6_CancelIdempotent ==
    /\ [][\A p \in Procs :
            ListArrivesWithoutMatch(p) =>
                /\ Pc(p)' = "done"
                /\ proc'[p].result = RetVoid
                /\ proc'[p].n.cancel = 0
                /\ pending' = pending]_vars
    /\ [](\A p \in Procs :
            /\ proc[p].op = "cancelBillReminder"
            /\ Pc(p) = "done"
            /\ proc[p].result = RetVoid
            => \A n \in pending : n.reminderId # proc[p].reminder.id)

\* a cancelBillReminder found nothing to cancel among the pending
\* notifications and completed without a cancel call
C6_NothingToCancel ==
    \E p \in Procs :
        /\ proc[p].op = "cancelBillReminder"
        /\ Pc(p) = "done"
        /\ proc[p].result = RetVoid
        /\ proc[p].n.list = 1
        /\ proc[p].n.cancel = 0
        /\ pending # {}

\* no operation of the screen or of the service is in flight
Quiescent ==
    /\ \A p \in Procs : Pc(p) \in {"idle", "done"}
    /\ orphans = {}

\* C7: whenever no operation of the bill reminders screen is in flight, no
\* reminder the store records as paid has a pending notification carrying
\* its id.
C7_PaidNeverPending ==
    Quiescent =>
        \A n \in pending :
            n.reminderId \in ReminderIds => ~store[n.reminderId].paid

\* C8: no public operation lets the failure of a substrate call or of a
\* completion request reach its caller: each ends by returning.
C8_NothingPropagates ==
    /\ \A p \in Procs : Pc(p) = "done" => proc[p].result.outcome = "returned"
    /\ aiPc = "done" => aiResult.outcome = "returned"

\* C9: initialize, called while not initialized, returns true exactly when
\* the permission request reports 'granted' and sets the flag to that value;
\* when a substrate call inside it raises it returns false and the flag
\* stays false.
C9_InitializeReportsPermission ==
    \A p \in Procs :
        /\ proc[p].op = "initialize"
        /\ Pc(p) = "done"
        /\ proc[p].n.handler = 1
        => /\ proc[p].result = RetBool(proc[p].status = "granted")
           /\ isInitialized = (proc[p].status = "granted")
           /\ proc[p].failed > 0 => proc[p].status = "none"

\* an initialize whose permission request raised has returned false
C9_PermissionRaised ==
    \E p \in Procs :
        /\ proc[p].op = "initialize"
        /\ Pc(p) = "done"
        /\ proc[p].n.permission = 1
        /\ proc[p].failed = 1
        /\ proc[p].result = RetBool(FALSE)
        /\ ~isInitialized

\* C10: once the flag is true, a call of initialize returns true at once,
\* without a substrate call, and leaves the flag as it is.
C10_InitializedIsNoOp ==
    [][\A p \in Procs :
            /\ isInitialized
            /\ Pc(p) = "idle"
            /\ proc'[p].op = "initialize"
            => /\ Pc(p)' = "done"
               /\ proc'[p].result = RetBool(TRUE)
               /\ proc'[p].n = NoCalls
               /\ isInitialized']_vars

\* an initialize called with the flag set has returned true without a
\* substrate call
C10_SecondInitialize ==
    \E p \in Procs :
        /\ proc[p].op = "initialize"
        /\ Pc(p) = "done"
        /\ proc[p].n = NoCalls
        /\ proc[p].result = RetBool(TRUE)
        /\ isInitialized

\* C11: a scheduleRandomNotifications called while not initialized, whose
\* initialize returns false (permission not granted, or a substrate call of
\* initialize raised), returns without error, sends no completion request
\* and submits no schedule request.
C11_NotInitializedDoesNothing ==
    \A p \in Procs :
        /\ proc[p].op = "scheduleRandomNotifications"
        /\ Pc(p) = "done"
        /\ proc[p].n.handler = 1
        /\ proc[p].status # "granted"
        => /\ proc[p].result = RetVoid
           /\ proc[p].n.ai = 0
           /\ proc[p].n.schedule = 0
           /\ items = <<>>
           /\ pending = {}

\* permission was denied to the initialize of a scheduleRandomNotifications,
\* which returned
C11_PermissionDenied ==
    \E p \in Procs :
        /\ proc[p].op = "scheduleRandomNotifications"
        /\ Pc(p) = "done"
        /\ proc[p].n.permission = 1
        /\ proc[p].status = "denied"
        /\ proc[p].result = RetVoid
        /\ proc[p].n.ai = 0

\* the hour and the minute of instant t on the wall clock of the zone
HourOfDay(t, zone) == ((t + zone) % MsPerDay) \div MsPerHour

MinuteOfHour(t, zone) == ((t + zone) % MsPerHour) \div MsPerMinute

\* the closures of the budget-alert batch started for the b-th budget
AlertsFor(b) ==
    {i \in 1..Len(items) : items[i].type = "budget-alert" /\ items[i].budget = b}

\* closure i submitted a schedule request for a 'Budget Alert' of high
\* priority at an hour in [9, 20] and a minute in [0, 59]
SubmittedBudgetAlert(i) ==
    /\ items[i].req # NoRequest
    /\ items[i].req.title = "Budget Alert"
    /\ items[i].req.priority = "HIGH"
    /\ items[i].config.hour \in 9..20
    /\ items[i].config.minute \in 0..59
    /\ HourOfDay(items[i].target, tz) = items[i].config.hour
    /\ MinuteOfHour(items[i].target, tz) = items[i].config.minute
    /\ items[i].req.seconds * MsPerSecond <= items[i].target - items[i].now
    /\ items[i].req.seconds * MsPerSecond > items[i].target - items[i].now - MsPerSecond

\* C12: when the batches of scheduleRandomNotifications have run, each
\* budget with amount > 0 and spent / amount * 100 >= 80 has exactly one
\* budget-alert schedule request, titled 'Budget Alert', of high priority, at
\* an hour in [9, 20] and a minute in [0, 59]; a budget with amount > 0 below
\* 80 percent has none.
C12_OneAlertPerDueBudget ==
    \A p \in Procs :
        /\ proc[p].op = "scheduleRandomNotifications"
        /\ Pc(p) = "done"
        /\ items # <<>>
        => \A b \in 1..Len(proc[p].budgets) :
               proc[p].budgets[b].amount > 0 =>
                   IF proc[p].budgets[b].spent * 100 >= 80 * proc[p].budgets[b].amount
                   THEN /\ Cardinality(AlertsFor(b)) = 1
                        /\ \A i \in AlertsFor(b) : SubmittedBudgetAlert(i)
                   ELSE AlertsFor(b) = {}

\* of a budget at 79 percent and one at exactly 80 percent, the second alone
\* has its alert pending
C12_AlertAtEightyPercent ==
    \E p \in Procs :
        /\ proc[p].op = "scheduleRandomNotifications"
        /\ Pc(p) = "done"
        /\ proc[p].budgets = <<Budget(1, 100, 79), Budget(3, 100, 80)>>
        /\ AlertsFor(1) = {}
        /\ \E i \in AlertsFor(2) :
               /\ SubmittedBudgetAlert(i)
               /\ items[i].result.kind = "id"
               /\ \E n \in pending :
                      n.identifier = items[i].result.id /\ n.title = "Budget Alert"

\* C13: every budget with amount = 0 has its budget alert whatever its spent
\* value, spent = 0 included, and the batch does not fail on the division.
C13_ZeroAmountAlwaysAlerts ==
    \A p \in Procs :
        /\ proc[p].op = "scheduleRandomNotifications"
        /\ Pc(p) = "done"
        /\ items # <<>>
        => /\ proc[p].result = RetVoid
           /\ \A b \in 1..Len(proc[p].budgets) :
                  proc[p].budgets[b].amount = 0 =>
                      /\ Cardinality(AlertsFor(b)) = 1
                      /\ \A i \in AlertsFor(b) : SubmittedBudgetAlert(i)

\* the closures of one batch of scheduleRandomNotifications
BatchOf(type) == {i \in 1..Len(items) : items[i].type = type}

\* closure i failed: its content generation fell back to the static text, or
\* its schedule call gave null
ItemFailed(i) == items[i].result.kind = "null"

\* C14: the three batches are isolated.  Once scheduleRandomNotifications has
\* started them it completes without throwing, and by then every closure of
\* every batch has submitted its schedule request, whatever failed in the
\* closures of the other batches.
C14_BatchesIsolated ==
    \A p \in Procs :
        /\ proc[p].op = "scheduleRandomNotifications"
        /\ Pc(p) = "done"
        /\ items # <<>>
        => /\ proc[p].result = RetVoid
           /\ \A i \in 1..Len(items) :
                  /\ items[i].pc = "done"
                  /\ items[i].req # NoRequest
                  /\ items[i].result.outcome = "returned"
           /\ proc[p].n.schedule = Len(items)
           /\ Cardinality(BatchOf("spending-tip")) \in 2..3
           /\ Cardinality(BatchOf("saving-opportunity")) \in 1..2

\* a budget alert failed to schedule while a tip and an opportunity were
\* scheduled and are pending
C14_AlertFailedOthersScheduled ==
    \E p \in Procs :
        /\ proc[p].op = "scheduleRandomNotifications"
        /\ Pc(p) = "done"
        /\ proc[p].result = RetVoid
        /\ \E i \in BatchOf("budget-alert") : ItemFailed(i)
        /\ \A i \in BatchOf("spending-tip") \cup BatchOf("saving-opportunity") :
               /\ items[i].result.kind = "id"
               /\ \E n \in pending : n.identifier = items[i].result.id

\* an analyzeSpendingPatterns call has returned the fallback pattern
ReturnedFallbackPattern ==
    /\ aiCall.op = "analyzeSpendingPatterns"
    /\ aiCall.pc = "done"
    /\ aiCall.warned

\* the indices of the budgets that pass the test, and the k-th of them
Passing(budgets, Test(_)) == {i \in 1..Len(budgets) : Test(budgets[i])}

Kth(kept, k) == CHOOSE i \in kept : Cardinality({j \in kept : j <= i}) = k

\* categories lists, in budget order, the categories of the budgets that pass
ListsInBudgetOrder(categories, budgets, Test(_)) ==
    LET kept == Passing(budgets, Test)
    IN  /\ Len(categories) = Cardinality(kept)
        /\ \A k \in 1..Len(categories) : categories[k] = budgets[Kth(kept, k)].category

SpentAboveAmount(b) == b.spent > b.amount

SpentAboveEightyPercent(b) == 10 * b.spent > 8 * b.amount

\* C15: in the fallback SpendingPattern overspendingTendency lists the
\* categories of the budgets with spent > amount and savingOpportunities those
\* with spent > 0.8 * amount, both in budget order; for budgets
\* [{Food, 100, 90}, {Housing, 500, 100}] they are [] and [Food].
C15_FallbackPartition ==
    ReturnedFallbackPattern =>
        /\ ListsInBudgetOrder(aiCall.value.pattern.overspendingTendency,
                              aiCall.budgets, SpentAboveAmount)
        /\ ListsInBudgetOrder(aiCall.value.pattern.savingOpportunities,
                              aiCall.budgets, SpentAboveEightyPercent)
        /\ aiCall.budgets = <<Budget(1, 100, 90), Budget(3, 500, 100)>> =>
               /\ aiCall.value.pattern.overspendingTendency = <<>>
               /\ aiCall.value.pattern.savingOpportunities = <<FoodName>>

\* the fallback was computed for the budgets of the example
C15_FoodIsAnOpportunity ==
    /\ ReturnedFallbackPattern
    /\ aiCall.budgets = <<Budget(1, 100, 90), Budget(3, 500, 100)>>
    /\ aiCall.value.pattern.overspendingTendency = <<>>
    /\ aiCall.value.pattern.savingOpportunities = <<FoodName>>

\* C16: with the AI forced to fail, transactions 'Uber ride' (20) and
\* 'Pizza Hut' (15) without categories give frequentCategories exactly
\* {Transportation, 1} and {Food, 1}, and monthlyTrend 'stable'.
C16_PizzaHutIsFood ==
    /\ ReturnedFallbackPattern
    /\ aiCall.transactions = <<Tx(UberRide, 20, Absent), Tx(PizzaHut, 15, Absent)>>
    => /\ LET frequent == aiCall.value.pattern.frequentCategories
          IN  {frequent[i] : i \in 1..Len(frequent)} =
                  {[category |-> TransportationName, frequency |-> 1],
                   [category |-> FoodName, frequency |-> 1]}
       /\ aiCall.value.pattern.monthlyTrend = "stable"

\* the fields of a SpendingPattern
PatternFields ==
    {"frequentCategories", "averageSpending", "overspendingTendency",
     "savingOpportunities", "monthlyTrend"}

\* the completion carried no text, text that is no JSON, or JSON that is no
\* object with the fields of a SpendingPattern
NotASpendingPattern(outcome) ==
    /\ outcome.kind = "completion"
    /\ outcome.content \in {Absent, <<>>, <<" ">>, ProseText, EmptyObjectText,
                            NullText, ArrayText, PartialPatternText}

\* C18: a completion that cannot be parsed, or that parses to a value not of
\* SpendingPattern shape, makes analyzeSpendingPatterns return the fallback
\* pattern.
C18_UnusableCompletionFallsBack ==
    /\ aiCall.op = "analyzeSpendingPatterns"
    /\ aiCall.pc = "done"
    /\ NotASpendingPattern(aiCall.outcome)
    => /\ aiCall.value.shape = "object"
       /\ aiCall.value.fields = PatternFields
       /\ aiCall.value.pattern.monthlyTrend = "stable"
       /\ ListsInBudgetOrder(aiCall.value.pattern.overspendingTendency,
                             aiCall.budgets, SpentAboveAmount)

\* text is content without its leading and trailing white space
IsTrimOf(text, content) ==
    \E i \in 1..Len(content), j \in 1..Len(content) :
        /\ i <= j
        /\ text = SubSeq(content, i, j)
        /\ content[i] \notin WhiteSpace
        /\ content[j] \notin WhiteSpace
        /\ \A k \in 1..Len(content) : (k < i \/ k > j) => content[k] \in WhiteSpace

\* the completion carried text that is not all white space
NonBlank(outcome) ==
    /\ outcome.kind = "completion"
    /\ outcome.content # Absent
    /\ \E k \in 1..Len(outcome.content) : outcome.content[k] \notin WhiteSpace

\* C19: generateNotificationContent never throws and returns a non-empty
\* string: the trimmed text of the completion when that is not blank, and the
\* static fallback of the kind when the request fails or the text is absent,
\* empty or white space.
C19_ContentOrStaticFallback ==
    /\ aiCall.op = "generateNotificationContent"
    /\ aiCall.pc \notin {"idle", "completion"}
    => /\ aiCall.pc = "done"
       /\ aiCall.text # Absent
       /\ aiCall.text # <<>>
       /\ IF NonBlank(aiCall.outcome)
          THEN IsTrimOf(aiCall.text, aiCall.outcome.content)
          ELSE /\ aiCall.kind = "budget-alert" => aiCall.text = BudgetAlertFallback
               /\ aiCall.kind = "spending-tip" => aiCall.text = SpendingTipFallback
               /\ aiCall.kind = "saving-opportunity" =>
                      aiCall.text = SavingOpportunityFallback

\* a text between white space came back trimmed
C19_TrimmedText ==
    /\ aiCall.op = "generateNotificationContent"
    /\ aiCall.pc = "done"
    /\ aiCall.outcome.kind = "completion"
    /\ aiCall.outcome.content = <<" ","S","a","v","e"," ","n","o","w","\n">>
    /\ aiCall.text = <<"S","a","v","e"," ","n","o","w">>

\* the substrate priority the claim gives to a priority of the configuration
ClaimedPriority(priority) ==
    CASE priority = "max" -> "MAX"
      [] priority = "high" -> "HIGH"
      [] priority = "default" -> "DEFAULT"
      [] priority = "absent" -> "DEFAULT"

\* C17: the priority mapping is total: the schedule request of a
\* configuration with priority 'max' carries MAX, with 'high' HIGH, and with
\* 'default' or no priority DEFAULT, and so does the notification scheduled.
C17_PriorityMapping ==
    \A p \in Procs :
        proc[p].op = "scheduleNotification" =>
            /\ proc[p].config.priority \in {"max", "high", "default", "absent"}
            /\ Pc(p) = "sn_schedule" =>
                   Top(Cur, p).req.priority = ClaimedPriority(proc[p].config.priority)
            /\ Pc(p) = "done" /\ proc[p].result.kind = "id" =>
                   \A n \in pending :
                       n.identifier = proc[p].result.id =>
                           n.priority = ClaimedPriority(proc[p].config.priority)

\* a notification of priority 'max' is pending with MAX
C17_MaxScheduled ==
    \E p \in Procs :
        /\ proc[p].op = "scheduleNotification"
        /\ Pc(p) = "done"
        /\ proc[p].config.priority = "max"
        /\ \E n \in pending : n.identifier = proc[p].result.id /\ n.priority = "MAX"

\* C20: with nothing else scheduling, each step of cancelBillReminder(id)
\* leaves every pending notification whose reminderId is another one or is
\* absent pending and as it was, and once the call has completed no pending
\* notification carries id.
C20_CancelsOnlyItsReminder ==
    /\ [][\A p \in Procs :
            proc[p].op = "cancelBillReminder" =>
                /\ pending' \subseteq pending
                /\ \A n \in pending \ pending' : n.reminderId = proc[p].reminder.id]_vars
    /\ [](\A p \in Procs :
            /\ proc[p].op = "cancelBillReminder"
            /\ Pc(p) = "done"
            /\ proc[p].result = RetVoid
            => /\ proc[p].n.list = 1
               /\ orphans = {}
               /\ {n \in pending : n.reminderId = proc[p].reminder.id} = {})

\* both notifications of reminder 1 were cancelled; the one of reminder 2,
\* the budget alert, the tip and the opportunity are pending
C20_OthersStillPending ==
    \E p \in Procs :
        /\ proc[p].op = "cancelBillReminder"
        /\ Pc(p) = "done"
        /\ proc[p].result = RetVoid
        /\ proc[p].reminder.id = 1
        /\ proc[p].n.cancel = 2
        /\ pending = Leftovers \ {Leftover(1, "Bill Due Today", 1, "HIGH"),
                                  Leftover(2, "Bill Due Today", 1, "HIGH")}

\* C21: of the initialize() calls in flight together, at most one registers
\* the display-policy handler and at most one requests the permission.
C21_ConcurrentInitializeOnce ==
    \A p \in Procs, q \in Procs :
        /\ p # q
        /\ proc[p].op = "initialize"
        /\ proc[q].op = "initialize"
        /\ Pc(p) # "done"
        /\ Pc(q) # "done"
        => /\ proc[p].n.handler + proc[q].n.handler <= 1
           /\ proc[p].n.permission + proc[q].n.permission <= 1

\* C28: the initialized flag is monotonic: no step takes it from true back
\* to false.
C28_InitializedMonotonic == [][isInitialized => isInitialized']_vars

\* 09:00 on the local calendar day of the instant new Date(due_date) gives:
\* the due time scheduleBillReminder resolves for the reminder of caller p
ResolvedDueTime(p) ==
    ((proc[p].reminder.due * MsPerDay + tz) \div MsPerDay) * MsPerDay + 9 * MsPerHour - tz

\* caller p's scheduleBillReminder found its reminder unpaid and its due time
\* not in the past
UnpaidAndAhead(p) ==
    /\ proc[p].op = "scheduleBillReminder"
    /\ ~proc[p].reminder.paid
    /\ proc[p].checkedAt # Missing
    /\ ResolvedDueTime(p) >= proc[p].checkedAt

WeekDayResolved(p) ==
    /\ proc[p].op = "scheduleNotification"
    /\ Pc(p) = "sn_schedule"
    /\ proc[p].config.date = Missing
    /\ proc[p].config.weekDay \in 0..6
    /\ proc[p].config.hour \in 9..20
    /\ proc[p].config.minute \in 0..59

\* C23: the trigger time resolved for a weekDay configuration falls on the
\* requested weekday at the requested hour and minute, is strictly after the
\* current time, both the one read first and the one read when the weekday
\* is resolved, and is at most 7 days after the latter.
C23_NextWeekdayWithinAWeek ==
    \A p \in Procs :
        WeekDayResolved(p) =>
            LET target == Top(Cur, p).target
            IN  /\ ((target + tz) \div MsPerDay) % 7 = proc[p].config.weekDay
                /\ HourOfDay(target, tz) = proc[p].config.hour
                /\ MinuteOfHour(target, tz) = proc[p].config.minute
                /\ target % MsPerMinute = 0
                /\ target > Top(Cur, p).now
                /\ target > clock
                /\ target - clock <= 7 * MsPerDay

\* the requested weekday is today and its time has passed: the trigger is
\* more than six days ahead
C23_NextWeek ==
    \E p \in Procs :
        /\ WeekDayResolved(p)
        /\ proc[p].config.weekDay = ((clock + tz) \div MsPerDay) % 7
        /\ Top(Cur, p).target - clock > 6 * MsPerDay

\* C24: the trigger time scheduleBillReminder submits for an unpaid reminder
\* due on a future calendar date is 09:00 local time on that calendar date,
\* in every zone.
C24_NineOnTheDueDate ==
    \A p \in Procs :
        /\ proc[p].op = "scheduleBillReminder"
        /\ Pc(p) = "sn_schedule"
        => Top(Cur, p).target = Local(tz, proc[p].reminder.due, 9, 0, 0, 0)

\* C29: every schedule request submitted to the substrate carries a delay of
\* at least one whole second and repeats = false.
C29_DelayAtLeastOneSecond ==
    \A p \in Procs :
        Pc(p) = "sn_schedule" =>
            /\ Top(Cur, p).req.seconds >= 1
            /\ Top(Cur, p).req.repeats = FALSE

\* five minutes, in ms
FiveMinutes == 5 * 60 * 1000

\* in this step a fetchTransactions call of hook h returns the cached list
ServesCache(h) == hook'[h].source = "cache" /\ hook'[h] # hook[h]

\* in this step hook h, not loading and on its first page, is asked for its
\* transactions
FirstPageCall(h) ==
    /\ calls' = calls + 1
    /\ hook'[h] # hook[h]
    /\ ~hook[h].isLoading
    /\ hook[h].page = 1

\* C25: the list served from the cache is never older than five minutes by
\* the cache timestamp.  A first-page fetch that is no refresh returns the
\* cached list only when now - timestamp < 5 minutes; with the cache older or
\* empty it goes to the network, and a first page that arrives replaces the
\* cache with the timestamp of that moment; a refresh clears the cache and
\* is never served from it.
C25_CacheFreshForFiveMinutes ==
    /\ [](\A h \in Hooks : hook[h].source = "cache" => hook[h].age < FiveMinutes)
    /\ [][\A h \in Hooks :
            ServesCache(h) =>
                /\ transactionCache.present
                /\ clock - transactionCache.timestamp < FiveMinutes
                /\ hook[h].page = 1
                /\ hook'[h].transactions = transactionCache.data
                /\ transactionCache' = transactionCache]_vars
    /\ [][\A h \in Hooks :
            /\ FirstPageCall(h)
            /\ ~(transactionCache.present /\ clock - transactionCache.timestamp < FiveMinutes)
            => /\ hook'[h].isLoading
               /\ hook'[h].fetch.pc = "manual"
               /\ hook'[h].transactions = hook[h].transactions]_vars
    /\ [][transactionCache'.present /\ transactionCache' # transactionCache =>
            /\ transactionCache'.timestamp = clock
            /\ \E h \in Hooks :
                   /\ hook[h].fetch.page = 1
                   /\ hook'[h].source = "network"
                   /\ hook'[h].transactions = transactionCache'.data]_vars
    /\ [][transactionCache.present /\ ~transactionCache'.present =>
            /\ calls' = calls + 1
            /\ \A h \in Hooks : ~ServesCache(h)]_vars

\* a list cached one millisecond less than five minutes ago was served
C25_ServedJustInTime ==
    \E h \in Hooks :
        /\ hook[h].source = "cache"
        /\ hook[h].age = FiveMinutes - 1
        /\ hook[h].transactions = transactionCache.data

\* C30: a fetch for the signed-in user never returns a list fetched for
\* another user.
C30_CacheServesItsOwner ==
    [][\A h \in Hooks :
          ServesCache(h) =>
              \A i \in 1..Len(hook'[h].transactions) :
                  hook'[h].transactions[i].user = user]_vars

\* the category a transaction is to be counted under: the one assigned to
\* it, else the one the keyword classifier gives its description
CountedUnder(t) ==
    IF t.category # Absent /\ t.category # <<>>
    THEN t.category
    ELSE fallbackCategorization(t.description)

\* the transactions of a list that are to be counted under a category
CountedAs(transactions, category) ==
    {i \in 1..Len(transactions) : CountedUnder(transactions[i]) = category}

RECURSIVE TotalFrequency(_)
TotalFrequency(entries) ==
    IF entries = <<>> THEN 0
    ELSE Head(entries).frequency + TotalFrequency(Tail(entries))

\* C26: frequentCategories of the fallback pattern lists each counted
\* category once and no other, in order of non-increasing frequency; a
\* transaction is counted under its assigned category, else under the
\* classifier's category of its description; the frequencies add up to the
\* number of transactions.
C26_FrequentCategoriesCountEachOnce ==
    ReturnedFallbackPattern =>
        LET frequent == aiCall.value.pattern.frequentCategories
            transactions == aiCall.transactions
        IN  /\ \A i, j \in 1..Len(frequent) :
                   i # j => frequent[i].category # frequent[j].category
            /\ \A i, j \in 1..Len(frequent) :
                   i < j => frequent[i].frequency >= frequent[j].frequency
            /\ \A i \in 1..Len(frequent) :
                   /\ frequent[i].frequency >= 1
                   /\ frequent[i].frequency =
                          Cardinality(CountedAs(transactions, frequent[i].category))
            /\ \A k \in 1..Len(transactions) :
                   \E i \in 1..Len(frequent) :
                       frequent[i].category = CountedUnder(transactions[k])
            /\ TotalFrequency(frequent) = Len(transactions)

\* three transactions in two categories, the category met second counted
\* twice and listed first
C26_SecondCategoryListedFirst ==
    /\ ReturnedFallbackPattern
    /\ Len(aiCall.transactions) = 3
    /\ LET frequent == aiCall.value.pattern.frequentCategories
       IN  /\ Len(frequent) = 2
           /\ frequent[1].frequency = 2
           /\ frequent[2].frequency = 1
           /\ frequent[2].category = CountedUnder(aiCall.transactions[1])
           /\ \E k \in 1..3 : aiCall.transactions[k].category # Absent

\* C27: whatever the bill reminders screen has done (its first
\* fetchReminders, further ones, togglePaid to paid and back), at most one
\* pending notification carries the id of any one reminder.
C27_OnePendingPerReminder ==
    \A n1, n2 \in pending :
        (n1.reminderId \in ReminderIds /\ n1.reminderId = n2.reminderId) => n1 = n2

====
